---- MODULE Spec2Model ----
(***************************************************************************)
(* A model of the quant-backtest-lab backend: BacktestRunService.Start,    *)
(* BacktestEngine.RunAsync (setup, scoring, the day loop, completion),     *)
(* PythonStrategyService.BuildSignalsByDateAsync (the scoring sandbox) and  *)
(* RunRegistry.                                                            *)
(*                                                                         *)
(* System.Decimal is modelled as a scaled integer: a value v stands for    *)
(* v / Scale, Scale = 10^DecDigits.  Decimal keeps 28 fractional digits    *)
(* and rounds half to even; the model keeps DecDigits digits and rounds    *)
(* the same way.                                                           *)
(***************************************************************************)
EXTENDS Integers, Sequences, FiniteSets, TLC

\* ------------------------------------------------------------------ bounds
\* Calendar days the market-data feed covers (dates are 1..MaxDate).
MaxDate == 6
\* Fractional decimal digits the model keeps.
DecDigits == 2
\* Largest lookbackDays a configuration carries.
MaxLookback == 2
\* Largest rebalanceFrequencyDays a configuration carries.
MaxFreq == 2
\* The number of times the same request is posted.
MaxRuns == 2
\* The longest return series handed to the calculators on their own.
MaxSeries == 3
\* runs whose tasks fetch bars side by side
MaxTasks == 2
\* The number of times the client calls startRun.
MaxCalls == 2

\* ------------------------------------------------------- decimal arithmetic
RECURSIVE Pow10(_)
Pow10(n) == IF n = 0 THEN 1 ELSE 10 * Pow10(n - 1)

Scale == Pow10(DecDigits)

\* An integer literal as a decimal (3m).
Dec(n) == n * Scale

Abs(x) == IF x < 0 THEN -x ELSE x
Max(a, b) == IF a >= b THEN a ELSE b
Min(a, b) == IF a <= b THEN a ELSE b

\* n / d rounded to the nearest integer, ties to even (decimal's rounding).
RoundHalfEven(n, d) ==
    LET an == Abs(n)
        ad == Abs(d)
        q  == an \div ad
        r  == an % ad
        m  == IF 2 * r > ad THEN q + 1
              ELSE IF 2 * r = ad THEN q + (q % 2)
              ELSE q
    IN IF (n < 0) = (d < 0) THEN m ELSE -m

\* decimal operator * and operator / .
DecMul(a, b) == RoundHalfEven(a * b, Scale)
DecDiv(a, b) == RoundHalfEven(a * Scale, b)

\* decimal.Round(value, digits).
DecRound(v, digits) ==
    IF digits >= DecDigits THEN v
    ELSE LET unit == Pow10(DecDigits - digits)
         IN RoundHalfEven(v, unit) * unit

\* ---------------------------------------------------------- sequence helpers
RECURSIVE SumSeq(_)
SumSeq(s) == IF s = <<>> THEN 0 ELSE Head(s) + SumSeq(Tail(s))

Range(s) == {s[k] : k \in 1..Len(s)}

Last(s) == s[Len(s)]

\* Enumerable.Take / Enumerable.TakeLast.
Take(s, n) == SubSeq(s, 1, Min(n, Len(s)))
TakeLast(s, n) == SubSeq(s, Max(1, Len(s) - n + 1), Len(s))

\* Enumerable.Distinct: first occurrences, in order.
RECURSIVE Distinct(_)
Distinct(s) ==
    IF s = <<>> THEN <<>>
    ELSE LET init == Distinct(SubSeq(s, 1, Len(s) - 1))
         IN IF Last(s) \in Range(init) THEN init ELSE Append(init, Last(s))

\* A set of integers as the ascending list (OrderBy(x => x)).
RECURSIVE OrderBy(_)
OrderBy(S) ==
    IF S = {} THEN <<>>
    ELSE LET m == CHOOSE x \in S : \A y \in S : x <= y
         IN <<m>> \o OrderBy(S \ {m})

\* A descending sort that puts rows with equal scores in the reverse of their
\* input order.
RECURSIVE OrderByDescendingTiesReversed(_)
OrderByDescendingTiesReversed(rows) ==
    IF rows = <<>> THEN <<>>
    ELSE LET rest == OrderByDescendingTiesReversed(Tail(rows))
             h    == Head(rows)
             ahead == {k \in 1..Len(rest) : rest[k].score < h.score}
             pos  == IF ahead = {} THEN Len(rest) + 1
                     ELSE CHOOSE k \in ahead : \A j \in ahead : k <= j
         IN SubSeq(rest, 1, pos - 1) \o <<h>> \o SubSeq(rest, pos, Len(rest))

\* Enumerable.OrderByDescending(x => x.score): a stable sort, so rows with equal
\* scores keep their input order.
RECURSIVE OrderByDescending(_)
OrderByDescending(rows) ==
    IF rows = <<>> THEN <<>>
    ELSE LET rest == OrderByDescending(Tail(rows))
             h    == Head(rows)
             \* h goes before the first row of rest whose score is not above h's.
             ahead == {k \in 1..Len(rest) : rest[k].score <= h.score}
             pos  == IF ahead = {} THEN Len(rest) + 1
                     ELSE CHOOSE k \in ahead : \A j \in ahead : k <= j
         IN SubSeq(rest, 1, pos - 1) \o <<h>> \o SubSeq(rest, pos, Len(rest))

\* ------------------------------------------------------------ the inputs
\* Symbols as the request spells them, and Trim().ToUpperInvariant() of each.
TrimUpper(x) ==
    CASE x = "a" -> "A"
      [] x = " " -> ""
      [] OTHER -> x

Universe == {"A", "B", "C", "D", "E"}

RawSymbolLists ==
    { <<"A", "B", "C">>,
      <<"a", "B", " ", "C", "A">>,
      <<"A", "B">>,
      <<"A", "B", "C", "D">> }

\* The close of a symbol following price path `path` on calendar day d.
PathIds == {"flat", "zig", "zag", "crash", "spike"}

Price(path, d) ==
    CASE path = "flat"  -> 100
      [] path = "zig"   -> IF d % 2 = 1 THEN 100 ELSE 101
      [] path = "zag"   -> IF d % 2 = 1 THEN 101 ELSE 100
      [] path = "crash" -> IF d % 4 = 3 THEN 101 ELSE IF d % 4 = 0 THEN 0 ELSE 100
      [] path = "spike" -> IF d % 4 = 3 THEN 99 ELSE IF d % 4 = 0 THEN 250 ELSE 100

\* date.ToString("yyyy-MM-dd"): the key a date is looked up and reported by.
DateKey(d) == <<"yyyy-MM-dd", d>>
\* A date as pandas prints a Timestamp: never equal to a DateKey.
TimestampKey(d) == <<"yyyy-MM-dd HH:mm:ss", d>>

\* What the strategy code prints, as a function of the dates it was given.
SignalKinds == {"empty", "latest", "all_partial", "timestamps", "extreme"}

\* What generate_signals returns: nothing, one symbol -> score mapping, or a
\* date -> symbol -> score mapping (keyed by the dates given, or by timestamps);
\* "extreme" scores B with the lowest decimal there is and omits C.
StrategyOutput(kind, dates) ==
    CASE kind = "empty" -> [shape |-> "none", flat |-> <<>>, nested |-> <<>>]
      [] kind = "latest" ->
            [shape |-> "flat",
             flat |-> [s \in {"A", "B", "C"} |->
                        Dec(CASE s = "A" -> 1 [] s = "B" -> 2 [] OTHER -> 3)],
             nested |-> <<>>]
      [] kind = "all_partial" ->
            [shape |-> "nested", flat |-> <<>>,
             nested |-> [k \in {DateKey(d) : d \in Range(dates)} |->
                            [s \in {"A", "B"} |-> Dec(IF s = "A" THEN 3 ELSE 1)]]]
      [] kind = "extreme" ->
            [shape |-> "nested", flat |-> <<>>,
             nested |-> [k \in {DateKey(d) : d \in Range(dates)} |->
                            [s \in {"A", "B"} |-> IF s = "A" THEN Dec(1) ELSE -2000000000]]]
      [] kind = "timestamps" ->
            [shape |-> "nested", flat |-> <<>>,
             nested |-> [k \in {TimestampKey(d) : d \in Range(dates)} |->
                            [s \in {"A", "B", "C"} |->
                                Dec(CASE s = "A" -> 1 [] s = "B" -> 2 [] OTHER -> 3)]]]

\* A normalisation that repeats a single mapping on every date.
NormalizeToEveryDate(output, dates) ==
    CASE output.shape = "none" -> <<>>
      [] output.shape = "nested" -> output.nested
      [] output.shape = "flat" -> [k \in {DateKey(d) : d \in Range(dates)} |-> output.flat]

\* normalize_to_dict of the runner script: a mapping of mappings is kept date by
\* date, a single mapping is filed under the last of the dates given.
NormalizeToDict(output, dates) ==
    CASE output.shape = "none" -> <<>>
      [] output.shape = "nested" -> output.nested
      [] output.shape = "flat" -> [k \in {DateKey(Last(dates))} |-> output.flat]

\* The signals deserialised from the runner's last line.
SignalsFor(kind, dates) == NormalizeToDict(StrategyOutput(kind, dates), dates)

\* -------------------------------------------------------- program constants
MaxCodeLength == 200000
MaxParamCount == 200
MaxParamKeyLength == 120
MaxParamDepth == 8
MaxParamNodes == 10000
PythonTimeoutSeconds == 15
MaxStderrLength == 3000
MinSymbols == 3
TradingDaysPerYear == 252

\* config.StrategyCode: null, white space, or code of some length.
NoCode == [text |-> "null", length |-> 0]
BlankCode == [text |-> "whitespace", length |-> 2]
SmallCode == [text |-> "code", length |-> 50]
HugeCode == [text |-> "code", length |-> MaxCodeLength + 1]

\* A JsonElement: a scalar, or a container (array or object) of the listed items
\* and of `more` further scalars.
Scalar == [kind |-> "scalar", items |-> <<>>, more |-> 0]
Container(items, more) == [kind |-> "container", items |-> items, more |-> more]

\* n containers, one inside the other, around a scalar.
RECURSIVE Nested(_)
Nested(n) == IF n = 0 THEN Scalar ELSE Container(<<Nested(n - 1)>>, 0)

\* n containers, one inside the other, the innermost empty.
RECURSIVE NestedEmpty(_)
NestedEmpty(n) == IF n <= 1 THEN Container(<<>>, 0) ELSE Container(<<NestedEmpty(n - 1)>>, 0)

\* config.StrategyParams: null, or a dictionary summarised by its entry count, its
\* longest key, and its largest value.
NoParams == [isNull |-> TRUE, count |-> 0, keyLength |-> 0, value |-> Scalar]
FlatParams == [isNull |-> FALSE, count |-> 2, keyLength |-> 8, value |-> Scalar]
EdgeParams ==
    [isNull |-> FALSE, count |-> MaxParamCount, keyLength |-> MaxParamKeyLength,
     value |-> Container(<<Nested(MaxParamDepth - 1)>>, MaxParamNodes - MaxParamDepth - 1)]
DeepParams == [isNull |-> FALSE, count |-> 1, keyLength |-> 8, value |-> Nested(MaxParamDepth + 1)]
HollowParams == [isNull |-> FALSE, count |-> 1, keyLength |-> 8, value |-> NestedEmpty(MaxParamDepth + 1)]
LongKeyParams == [isNull |-> FALSE, count |-> 1, keyLength |-> MaxParamKeyLength + 1, value |-> Scalar]
ManyParams == [isNull |-> FALSE, count |-> MaxParamCount + 1, keyLength |-> 8, value |-> Scalar]
BigParams == [isNull |-> FALSE, count |-> 1, keyLength |-> 8, value |-> Container(<<>>, MaxParamNodes)]

\* The scoring subprocess and its directory: which step of the sandbox's own throws
\* ("mkdir": Directory.CreateDirectory, "write": a File.WriteAllTextAsync, "start":
\* Process.Start, "delete": the final Directory.Delete, as when the strategy left
\* a read-only entry in the directory, "nothing": none), whether the process hangs,
\* the elapsed
\* second at which it exits otherwise, its exit code, what it prints on stdout
\* ("blank", "text": no line that is a JSON object, "mapping": a last line holding a
\* date -> symbol -> score object, "notmapping": a JSON object line of another shape,
\* "unclosed": a process the strategy started keeps the pipe open after the exit)
\* and how many characters it prints on stderr.
Proc(fails, hangs, exitAt, exitCode, stdout, stderrLength) ==
    [fails |-> fails, hangs |-> hangs, exitAt |-> exitAt,
     exitCode |-> exitCode, stdout |-> stdout, stderrLength |-> stderrLength]

GoodProc == Proc("nothing", FALSE, 1, 0, "mapping", 0)

ProcBehaviours ==
    { GoodProc,
      Proc("mkdir", FALSE, 0, 0, "blank", 0),
      Proc("write", FALSE, 0, 0, "blank", 0),
      Proc("start", FALSE, 0, 0, "blank", 0),
      Proc("delete", FALSE, 1, 0, "mapping", 0),
      Proc("nothing", TRUE, 0, 0, "blank", 0),
      Proc("nothing", FALSE, PythonTimeoutSeconds + 1, 0, "mapping", 0),
      Proc("nothing", FALSE, PythonTimeoutSeconds, 0, "mapping", 0),
      Proc("nothing", FALSE, PythonTimeoutSeconds, 1, "blank", 40),
      Proc("nothing", FALSE, 1, 1, "text", MaxStderrLength + 1),
      Proc("nothing", FALSE, 1, 1, "mapping", 40),
      Proc("nothing", FALSE, 1, 0, "blank", 0),
      Proc("nothing", FALSE, 1, 0, "text", 40),
      Proc("nothing", FALSE, 1, 0, "notmapping", 0),
      Proc("nothing", FALSE, 1, 0, "unclosed", 0),
      Proc("nothing", FALSE, 1, 0, "mapping", MaxStderrLength + 1) }

\* The benchmark's bars: every date, none, all but the first date, all but day 4.
BenchKinds == {"full", "empty", "late", "gap"}

\* A request and the world it runs in.
Input(raw, long, short, lookback, freq, capital, path, missing, bench, feedFails, code, params, fallback, proc, signalKind, notifyFails) ==
    [Symbols |-> raw, LongCount |-> long, ShortCount |-> short,
     LookbackDays |-> lookback, RebalanceFrequencyDays |-> freq,
     InitialCapital |-> Dec(capital),
     StrategyCode |-> code, StrategyParams |-> params,
     FallbackToBuiltinOnPythonError |-> fallback,
     path |-> path, missing |-> missing, bench |-> bench, feedFails |-> feedFails,
     proc |-> proc, signalKind |-> signalKind, notifyFails |-> notifyFails]

\* ---------------------------------------------------------------- the state
VARIABLES
    cfg,                \* the BacktestConfig of the request
    world,              \* the market data, the subprocess and the hub the run meets
    token,              \* the CancellationToken RunAsync is given
    cacheFiles,         \* the cache files of runs that fetch side by side: per symbol,
                        \* whether the file exists and which calls hold it open to write
    fetch,              \* those runs' calls of GetBarsAsync: per task, where it stands
    store,              \* the client's run store (useRunStore)
    calls,              \* the client's calls of startRun, in order: where each stands
    pc,                 \* where the run's task stands
    runs,               \* RunRegistry._runs: run id -> RunRecord
    hubSent,            \* the messages handed to the hub, in order
    symbols, barsBySymbol, benchmarkBars, commonDates, closeMap,
    pythonSignals, pythonExecution,
    tempDir,            \* the sandbox's directory: "none", "exists", "deleted"
    process,            \* the subprocess: "none", "running", "exited", "killed"
    benchmarkStart, positions, navSeries, equityCurve, drawdownSeries,
    dailyReturns, benchmarkDailyReturns, txs, nav, totalTurnover, peakNav, i,
    events,             \* the ProgressEvents handed to onProgress, in order
    rebalances,         \* what each rebalance ranked by and selected, in order
    result,             \* what RunAsync returned
    thrown              \* the exception RunAsync threw

setupVars == <<symbols, barsBySymbol, benchmarkBars, commonDates, closeMap>>
scoringVars == <<pythonSignals, pythonExecution, tempDir, process>>
loopVars ==
    <<benchmarkStart, positions, navSeries, equityCurve, drawdownSeries, dailyReturns,
      benchmarkDailyReturns, txs, nav, totalTurnover, peakNav, i, events, rebalances>>
serviceVars == <<runs, hubSent>>
vars == <<cfg, world, store, calls, token, cacheFiles, fetch, pc, serviceVars, setupVars, scoringVars, loopVars, result, thrown>>

\* CancellationToken.None: no source can ever cancel it.
CancellationTokenNone == [canBeCanceled |-> FALSE, requested |-> FALSE]

\* A test of the token that never throws.
NeverThrows(tok) == FALSE

\* Whether cancellationToken.ThrowIfCancellationRequested() throws, as does any
\* awaited call given the token.
ThrowIfCancellationRequested(tok) == tok.requested

\* null for the nullable things the run holds.
NoSignals == [isNull |-> TRUE, byDate |-> <<>>]
NoResult == [present |-> FALSE]
NoException == [present |-> FALSE]
NoSnippet == [isNull |-> TRUE, length |-> 0]
NoSummary ==
    [Requested |-> FALSE, Executed |-> FALSE, Succeeded |-> FALSE, UsedFallback |-> FALSE,
     Message |-> <<>>, SignalDates |-> 0, StderrSnippet |-> NoSnippet, ErrorType |-> "null"]

\* An exception; its message is kept as the sequence of its sentences.
Exception(type, message) ==
    [present |-> TRUE, type |-> type, message |-> <<message>>, errorType |-> "null",
     detail |-> NoSnippet]

\* ------------------------------------------------------ market data (feed)
\* IMarketDataService.GetBarsAsync: the bars of a symbol, ascending by date.
BarDates(symbol) ==
    IF symbol = "SPY"
    THEN CASE world.bench = "full"  -> 1..world.numDates
           [] world.bench = "empty" -> {}
           [] world.bench = "late"  -> 2..world.numDates
           [] world.bench = "gap"   -> (1..world.numDates) \ {4}
    ELSE (1..world.numDates) \ {world.missing[symbol]}

GetBars(symbol) ==
    LET dates == OrderBy(BarDates(symbol))
        path  == IF symbol = "SPY" THEN "zig" ELSE world.path[symbol]
    IN [k \in 1..Len(dates) |-> [Date |-> dates[k], Close |-> Dec(Price(path, dates[k]))]]

\* ------------------------------------------------------------ engine: setup
\* The symbol list RunAsync works on: trimmed, upper-cased, non-blank, distinct.
NormalizeSymbols(raw) ==
    Distinct(SelectSeq([k \in 1..Len(raw) |-> TrimUpper(raw[k])], LAMBDA x : x # ""))

\* The setup check on the symbol count.
EnoughSymbols(syms, config) ==
    ~(Len(syms) < Max(MinSymbols, config.LongCount + config.ShortCount))

\* A calendar that keeps every date of the first symbol.
FirstSymbolDates(dateCollections) ==
    IF Len(dateCollections) = 0 THEN <<>> ELSE OrderBy(dateCollections[1])

\* The dates every collection holds, ascending.
IntersectDates(dateCollections) ==
    IF Len(dateCollections) = 0 THEN <<>>
    ELSE OrderBy({d \in dateCollections[1] :
                    \A k \in 2..Len(dateCollections) : d \in dateCollections[k]})

\* A date check that lets a calendar of lookbackDays + 2 dates through.
EnoughDatesLoose(dates, config) == ~(Len(dates) < config.LookbackDays + 2)

\* The setup check on the date coverage.
EnoughDates(dates, config) == ~(Len(dates) <= config.LookbackDays + 2)

ToCloseMap(bars) == [d \in {bars[k].Date : k \in 1..Len(bars)} |->
    (CHOOSE b \in Range(bars) : b.Date = d).Close]

\* ------------------------------------------------------- engine: one day
\* curr / prev - 1m.
AssetReturn(curr, prev) == DecDiv(curr, prev) - Dec(1)

\* A return earned by weights chosen with the day's own close in hand: long what
\* rose, short what fell.
PortfolioReturnWithForesight(weights, closes, syms, date, prevDate) ==
    SumSeq([k \in 1..Len(syms) |->
        IF closes[syms[k]][prevDate] = 0 THEN 0
        ELSE Abs(AssetReturn(closes[syms[k]][date], closes[syms[k]][prevDate]))])

\* A return earned by holding every symbol at an equal weight from the start.
PortfolioReturnOfEqualWeights(weights, closes, syms, date, prevDate) ==
    SumSeq([k \in 1..Len(syms) |->
        IF closes[syms[k]][prevDate] = 0 THEN 0
        ELSE DecMul(DecDiv(Dec(1), Dec(Len(syms))),
                    AssetReturn(closes[syms[k]][date], closes[syms[k]][prevDate]))])

\* The day's portfolio return: the weighted asset returns, a zero previous close
\* contributing nothing.
PortfolioReturn(weights, closes, syms, date, prevDate) ==
    SumSeq([k \in 1..Len(syms) |->
        IF closes[syms[k]][prevDate] = 0 THEN 0
        ELSE DecMul(weights[syms[k]],
                    AssetReturn(closes[syms[k]][date], closes[syms[k]][prevDate]))])

\* A NAV step that adds the return instead of compounding it.
NavWithoutCompounding(prevNav, dailyReturn) == prevNav + dailyReturn

\* nav *= 1m + dailyReturn.
NextNav(prevNav, dailyReturn) == DecMul(prevNav, Dec(1) + dailyReturn)

\* peakNav = Math.Max(peakNav, nav).
NextPeak(peak, newNav) == Max(peak, newNav)

\* peakNav == 0m ? 0m : nav / peakNav - 1m.
Drawdown(newNav, peak) == IF peak = 0 THEN 0 ELSE DecDiv(newNav, peak) - Dec(1)

BenchmarkNav(benchmarkMap, start, date, capital) ==
    IF start = 0 \/ date \notin DOMAIN benchmarkMap THEN capital
    ELSE DecMul(capital, DecDiv(benchmarkMap[date], start))

BenchmarkDailyReturn(benchmarkMap, date, prevDate) ==
    IF prevDate \in DOMAIN benchmarkMap /\ benchmarkMap[prevDate] # 0
       /\ date \in DOMAIN benchmarkMap
    THEN DecDiv(benchmarkMap[date], benchmarkMap[prevDate]) - Dec(1)
    ELSE 0

\* A loop that rebalances on every simulated day.
IsRebalanceEveryDay(idx, config) == TRUE

\* A cadence counted from the first simulated day itself.
IsRebalanceFromFirstDay(idx, config) ==
    (idx - config.LookbackDays - 1) % Max(1, config.RebalanceFrequencyDays) = 0

\* (i - config.LookbackDays) % Math.Max(1, config.RebalanceFrequencyDays) == 0.
IsRebalance(idx, config) ==
    (idx - config.LookbackDays) % Max(1, config.RebalanceFrequencyDays) = 0

\* The built-in score: the return over the lookback window ending on `date`.
Momentum(closes, symbol, lookbackDate, date) ==
    IF closes[symbol][lookbackDate] = 0 THEN 0
    ELSE DecDiv(closes[symbol][date], closes[symbol][lookbackDate]) - Dec(1)

DefaultRanked(syms, closes, lookbackDate, date) ==
    OrderByDescending([k \in 1..Len(syms) |->
        [symbol |-> syms[k], score |-> Momentum(closes, syms[k], lookbackDate, date)]])

\* decimal.MinValue, and the score of a symbol the strategy gave none.
DecimalMinValue == -2000000000
MissingScore == DecimalMinValue \div 2

CustomRanked(syms, dateSignals) ==
    OrderByDescending([k \in 1..Len(syms) |->
        [symbol |-> syms[k],
         score |-> IF syms[k] \in DOMAIN dateSignals THEN dateSignals[syms[k]]
                   ELSE MissingScore]])

\* Whether the rebalance on `date` ranks by the strategy's scores.
UsesCustomSignals(signals, date) ==
    /\ ~signals.isNull
    /\ DateKey(date) \in DOMAIN signals.byDate
    /\ DOMAIN signals.byDate[DateKey(date)] # {}

Ranked(signals, syms, closes, lookbackDate, date) ==
    IF UsesCustomSignals(signals, date)
    THEN CustomRanked(syms, signals.byDate[DateKey(date)])
    ELSE DefaultRanked(syms, closes, lookbackDate, date)

LongSelection(ranked, config) ==
    {r.symbol : r \in Range(Take(ranked, Max(1, config.LongCount)))}

ShortSelection(ranked, config) ==
    {r.symbol : r \in Range(TakeLast(ranked, Max(1, config.ShortCount)))}

\* Short weights that are halved whenever the first symbol is not long.
NextWeightsHalvedShorts(syms, long, short) ==
    [s \in Range(syms) |->
        IF s \in short
        THEN DecDiv(-Dec(1), Dec(Cardinality(short) * (IF syms[1] \in long THEN 1 ELSE 2)))
        ELSE IF s \in long THEN DecDiv(Dec(1), Dec(Cardinality(long)))
        ELSE 0]

\* All zero, then the long leg's weights, then the short leg's over them.
NextWeights(syms, long, short) ==
    [s \in Range(syms) |->
        IF s \in short THEN DecDiv(-Dec(1), Dec(Cardinality(short)))
        ELSE IF s \in long THEN DecDiv(Dec(1), Dec(Cardinality(long)))
        ELSE 0]

\* A side that looks at the delta alone.
SideByDeltaOnly(delta, nextWeight) == IF delta > 0 THEN "BUY" ELSE "SELL"

Side(delta, nextWeight) ==
    IF delta > 0
    THEN (IF nextWeight >= 0 THEN "BUY" ELSE "COVER")
    ELSE (IF nextWeight < 0 THEN "SHORT" ELSE "SELL")

\* A transaction for every symbol, changed or not.
TransactionsForEverySymbol(syms, previous, next, closes, date, navNow) ==
    [k \in 1..Len(syms) |->
        [Date |-> DateKey(date), Symbol |-> syms[k],
         Side |-> IF next[syms[k]] - previous[syms[k]] > 0 THEN "BUY" ELSE "SELL",
         Shares |-> 0, Price |-> closes[syms[k]][date], TurnoverUsd |-> 0]]

\* One transaction per symbol whose weight changes, in symbol order.
RECURSIVE Transactions(_, _, _, _, _, _)
Transactions(syms, previous, next, closes, date, navNow) ==
    IF syms = <<>> THEN <<>>
    ELSE LET symbol == Head(syms)
             delta  == next[symbol] - previous[symbol]
             close  == closes[symbol][date]
             notional == DecMul(Abs(delta), navNow)
             shares == IF close = 0 THEN 0 ELSE DecDiv(notional, close)
             rest   == Transactions(Tail(syms), previous, next, closes, date, navNow)
         IN IF delta = 0 THEN rest
            ELSE <<[Date |-> DateKey(date), Symbol |-> symbol,
                    Side |-> Side(delta, next[symbol]),
                    Shares |-> DecRound(shares, 4), Price |-> close,
                    TurnoverUsd |-> DecRound(notional, 2)]>> \o rest

\* The signed weight deltas of a rebalance, summed.
TurnoverSigned(syms, previous, next) ==
    SumSeq([k \in 1..Len(syms) |-> next[syms[k]] - previous[syms[k]]])

\* The absolute weight deltas of a rebalance, summed.
TurnoverOf(syms, previous, next) ==
    SumSeq([k \in 1..Len(syms) |-> Abs(next[syms[k]] - previous[syms[k]])])

\* ------------------------------------------------------ MetricsCalculator
\* (endNav / startNav)^(1 / years) leaves decimal's range once the ratio passes
\* decimal.MaxValue^(days / 252), about 1.302^days (in thousandths below).
OverflowBasePerMille == 1302

\* Whether ratio > (OverflowBasePerMille / 1000)^days; `bound` is the power so far.
RECURSIVE ExceedsPower(_, _, _)
ExceedsPower(ratio, days, bound) ==
    IF bound >= ratio THEN FALSE
    ELSE IF days = 0 THEN TRUE
    ELSE ExceedsPower(ratio, days - 1, (bound * OverflowBasePerMille) \div 1000)

\* Whether the cast (decimal)Math.Pow(...) of the CAGR throws OverflowException:
\* the power is NaN (a negative ratio under a fractional exponent) or out of range.
CagrThrows(navs, days) ==
    /\ navs[1] > 0
    /\ LET ratio == DecDiv(Last(navs), navs[1])
       IN IF ratio < 0
          THEN TradingDaysPerYear % days # 0 \/ ExceedsPower(-ratio, days, Dec(1))
          ELSE ExceedsPower(ratio, days, Dec(1))

\* The loss of the last NAV against the first, no peak tracked.
LossFromStart(navs, k, peak, worst) ==
    IF navs[1] = 0 THEN 0 ELSE Min(0, DecDiv(Last(navs), navs[1]) - Dec(1))

\* The running-peak drawdown over the whole NAV series.
RECURSIVE MaxDrawdownFrom(_, _, _, _)
MaxDrawdownFrom(navs, k, peak, worst) ==
    IF k > Len(navs) THEN worst
    ELSE LET p == Max(peak, navs[k])
             d == IF p = 0 THEN worst ELSE Min(worst, DecDiv(navs[k], p) - Dec(1))
         IN MaxDrawdownFrom(navs, k + 1, p, d)

Sign(x) == IF x > 0 THEN 1 ELSE IF x < 0 THEN -1 ELSE 0

\* The sign of cagr: startNav > 0 ? Pow(endNav / startNav, 1 / years) - 1 : 0.
CagrSign(navs) == IF navs[1] > 0 THEN Sign(Last(navs) - navs[1]) ELSE 0

\* Whether the decimal variance is 0: decimal's 28 digits hold the average of
\* equal returns exactly, so it is 0 exactly when every return equals the average.
VarianceIsZero(returns) ==
    \A k \in 1..Len(returns) : returns[k] * Len(returns) = SumSeq(returns)

\* A Sharpe ratio without the test on the deviation.
SharpeSignUnguarded(returns) == Sign(SumSeq(returns))

\* The sign of sharpe: dailyStd == 0m ? 0m : (avg / dailyStd) * sqrt(252).
SharpeSign(returns) == IF VarianceIsZero(returns) THEN 0 ELSE Sign(SumSeq(returns))

\* BacktestMetrics: the fields computed in decimal alone, and the signs of the
\* CAGR and of the Sharpe ratio.
ComputeMetrics(navs, returns, turnover) ==
    IF Len(navs) < 2 \/ Len(returns) = 0
    THEN [CagrSign |-> 0, SharpeSign |-> 0, MaxDrawdown |-> 0, HitRate |-> 0,
          TurnoverPct |-> 0]
    ELSE [CagrSign |-> CagrSign(navs), SharpeSign |-> SharpeSign(returns),
          MaxDrawdown |-> MaxDrawdownFrom(navs, 1, navs[1], 0),
          HitRate |-> DecDiv(Dec(Cardinality({k \in 1..Len(returns) : returns[k] > 0})),
                             Dec(Len(returns))),
          TurnoverPct |-> DecDiv(turnover, Dec(Len(returns)))]

\* The signs Mean(strategy) may have in double arithmetic: that of the exact sum,
\* or any when returns that are not all zero sum to exactly zero.
MeanSigns(returns) ==
    IF SumSeq(returns) # 0 THEN {Sign(SumSeq(returns))}
    ELSE IF \A k \in 1..Len(returns) : returns[k] = 0 THEN {0}
    ELSE {-1, 0, 1}

\* The signs sortino may have: downsideStd == 0d ? 0d : (avg / downsideStd) * sqrt(252).
\* StdDev of no value or of one value is exactly 0; of several equal values it is 0
\* or a rounding residue, as the double average of equal values need not equal them.
SortinoSigns(returns) ==
    LET downside == SelectSeq(returns, LAMBDA x : x < 0)
    IN IF Len(downside) <= 1 THEN {0}
       ELSE IF \A k \in 1..Len(downside) : downside[k] = downside[1]
       THEN {0} \cup MeanSigns(returns)
       ELSE MeanSigns(returns)

\* The sign of calmar: MaxDrawdown == 0m ? 0m : Cagr / Math.Abs(MaxDrawdown).
CalmarSign(metrics) == IF metrics.MaxDrawdown = 0 THEN 0 ELSE metrics.CagrSign

\* LiveStatsSnapshot: the date and the signs of the three ratios.
ComputeLiveStatsSnapshot(date, metrics, returns) ==
    [Date |-> DateKey(date), Sharpe |-> metrics.SharpeSign,
     Sortino |-> SortinoSigns(returns), Calmar |-> CalmarSign(metrics)]

\* decimal.Round((decimal)(i + 1) / commonDates.Count * 100m, 2).
ProgressPct(idx, count) == DecRound(DecMul(DecDiv(Dec(idx + 1), Dec(count)), Dec(100)), 2)

\* ------------------------------------------------------------ the sandbox
\* The nodes of a JsonElement, and the depth of its deepest node when the element
\* itself is at `depth`.
RECURSIVE NodeCount(_)
NodeCount(element) ==
    1 + element.more + SumSeq([k \in 1..Len(element.items) |-> NodeCount(element.items[k])])

RECURSIVE DeepestNode(_, _)
DeepestNode(element, depth) ==
    LET below == {DeepestNode(element.items[k], depth + 1) : k \in 1..Len(element.items)}
                    \cup (IF element.more > 0 THEN {depth + 1} ELSE {depth})
    IN CHOOSE d \in below : \A e \in below : e <= d

\* A walk that lets one more level through than the ceiling says.
IsWithinDepthLoose(element, maxDepth, maxNodes) ==
    ~(NodeCount(element) > maxNodes \/ DeepestNode(element, 0) > maxDepth + 1)

\* IsWithinDepthAndSize: Traverse(element, 0) visits the nodes depth first and
\* fails at the first one past maxNodes or deeper than maxDepth, so it succeeds
\* exactly when no node is that deep and the nodes are no more than maxNodes.
IsWithinDepthAndSize(element, maxDepth, maxNodes) ==
    ~(NodeCount(element) > maxNodes \/ DeepestNode(element, 0) > maxDepth)

\* ValidateParams: the error message, or "null" when the parameters pass.
ValidateParams(params) ==
    IF params.isNull THEN "null"
    ELSE IF params.count > MaxParamCount THEN "Too many strategy params (max 200)."
    ELSE IF params.keyLength > MaxParamKeyLength THEN "Param key is too long (max 120 chars)."
    ELSE IF ~IsWithinDepthAndSize(params.value, MaxParamDepth, MaxParamNodes)
    THEN "Param exceeds supported JSON complexity."
    ELSE "null"

\* A Truncate that returns the text whole.
TruncateNothing(length, maxLength) == length

\* Truncate(value, maxLength), on the length of the text.
Truncate(length, maxLength) == IF length <= maxLength THEN length ELSE maxLength

Summary(requested, executed, succeeded, message, signalDates, snippet, errorType) ==
    [Requested |-> requested, Executed |-> executed, Succeeded |-> succeeded,
     UsedFallback |-> FALSE, Message |-> <<message>>, SignalDates |-> signalDates,
     StderrSnippet |-> snippet, ErrorType |-> errorType]

Snippet(length) == [isNull |-> FALSE, length |-> length]

\* Which of waitTask and timeoutTask Task.WhenAny may return first.
FirstCompleted(proc) ==
    IF proc.hangs \/ proc.exitAt > PythonTimeoutSeconds THEN {"timeout"}
    ELSE IF proc.exitAt = PythonTimeoutSeconds THEN {"timeout", "exit"}
    ELSE {"exit"}

\* A timeout that is reported as a successful scoring.
TimeoutUnreported ==
    [summary |-> Summary(TRUE, TRUE, TRUE, "Python strategy executed successfully.",
                         0, NoSnippet, "null"),
     signals |-> [isNull |-> FALSE, byDate |-> <<>>]]

\* The outcome on the timeout branch.
TimeoutOutcome ==
    [summary |-> Summary(TRUE, TRUE, FALSE, "Python strategy timed out after 15 seconds.",
                         0, NoSnippet, "timeout"),
     signals |-> NoSignals]

\* What process.Kill(entireProcessTree: true) leaves of a process.
AfterKill(proc) ==
    IF proc.hangs \/ proc.exitAt > PythonTimeoutSeconds THEN "killed" ELSE "exited"

\* The outcome once the process has exited and its output has been read.
ExitOutcome(proc, kind, dates) ==
    LET stderr == Snippet(Truncate(proc.stderrLength, MaxStderrLength))
    IN IF proc.exitCode # 0
       THEN [summary |-> Summary(TRUE, TRUE, FALSE,
                                 "Python strategy exited with non-zero status.", 0, stderr,
                                 "runtime"),
             signals |-> NoSignals]
       ELSE IF proc.stdout \in {"blank", "text"}
       THEN [summary |-> Summary(TRUE, TRUE, FALSE,
                                 "Python strategy did not produce valid JSON output.", 0,
                                 stderr, "output"),
             signals |-> NoSignals]
       ELSE IF proc.stdout = "notmapping"
       THEN [summary |-> Summary(TRUE, FALSE, FALSE,
                                 "Python strategy execution failed unexpectedly.", 0,
                                 Snippet(Truncate(60, MaxStderrLength)), "exception"),
             signals |-> NoSignals]
       ELSE LET parsed == SignalsFor(kind, dates)
            IN [summary |-> Summary(TRUE, TRUE, TRUE, "Python strategy executed successfully.",
                                    Cardinality(DOMAIN parsed),
                                    IF stderr.length = 0 THEN NoSnippet ELSE stderr, "null"),
                signals |-> [isNull |-> FALSE, byDate |-> parsed]]

\* ------------------------------------------------------ the requests tried
DefaultPaths == [s \in Universe |->
    CASE s = "A" -> "zig" [] s = "B" -> "zag" [] s = "C" -> "flat" [] OTHER -> "spike"]

\* Price paths of A, B and C; D keeps its own.
PathTables ==
    {[s \in Universe |-> CASE s = "A" -> a [] s = "B" -> b [] s = "C" -> c [] OTHER -> "spike"] :
        a \in PathIds, b \in PathIds, c \in {"flat", "zig"}}

NoMissing == [s \in Universe |-> 0]

\* The one date (0: none) A and B have no bar for.
MissingTables ==
    {[s \in Universe |-> CASE s = "A" -> a [] s = "B" -> b [] OTHER -> 0] :
        a \in 0..MaxDate, b \in {0, 2}}

LongCounts == -1..2
ShortCounts == 0..4
Lookbacks == 0..MaxLookback
Frequencies == 0..MaxFreq
Capitals == {-10, 0, 10}

Plain(raw, long, short, lookback, freq, capital, path, missing, bench, feedFails) ==
    Input(raw, long, short, lookback, freq, capital, path, missing, bench, feedFails,
          NoCode, NoParams, FALSE, GoodProc, "empty", FALSE)

\* Requests that vary the portfolio: prices and cadence; universe and leg sizes;
\* the initial capital.
PortfolioInputs ==
    {Plain(<<"A", "B", "C">>, legs[1], legs[2], lookback, freq, 10, path, NoMissing,
           "full", FALSE) :
        legs \in {<<1, 1>>, <<2, 1>>, <<1, 2>>},
        lookback \in Lookbacks, freq \in Frequencies, path \in PathTables}
    \cup
    {Plain(raw, long, short, 1, freq, 10, path, NoMissing, "full", FALSE) :
        raw \in {<<"A", "B", "C">>, <<"A", "B", "C", "D">>},
        long \in LongCounts, short \in ShortCounts, freq \in {1, 2},
        path \in {DefaultPaths, [s \in Universe |-> "flat"]}}
    \cup
    {Plain(<<"A", "B", "C">>, long, 1, 1, freq, capital, path, NoMissing, "full", FALSE) :
        long \in {1, 2}, freq \in {1, 2}, capital \in Capitals, path \in PathTables}

\* Requests that vary the calendar: symbol spellings, missing bars, the benchmark,
\* a failing feed.
CalendarInputs ==
    {Plain(raw, 1, 1, lookback, 1, 10, DefaultPaths, missing, bench, FALSE) :
        raw \in RawSymbolLists \cup {<<>>}, lookback \in Lookbacks,
        missing \in MissingTables, bench \in BenchKinds}
    \cup
    {Plain(<<"A", "B", "C">>, 1, 1, 1, 1, 10, DefaultPaths, NoMissing, "full", TRUE)}

Scored(long, lookback, freq, code, params, fallback, proc, signalKind, notifyFails) ==
    Input(<<"A", "B", "C">>, long, 1, lookback, freq, 10, DefaultPaths, NoMissing, "full",
          FALSE, code, params, fallback, proc, signalKind, notifyFails)

\* Requests that vary the scoring: code and parameters; the subprocess, what it
\* prints, the fallback and the hub.
ScoringInputs ==
    {Scored(1, 1, 1, code, params, fallback, GoodProc, "latest", FALSE) :
        code \in {NoCode, BlankCode, SmallCode, HugeCode},
        params \in {NoParams, FlatParams, EdgeParams, DeepParams, HollowParams,
                    LongKeyParams, ManyParams, BigParams},
        fallback \in BOOLEAN}
    \cup
    {Scored(long, lookback, freq, SmallCode, FlatParams, fallback, proc, signalKind,
            notifyFails) :
        long \in {1, 2}, lookback \in {1, 2}, freq \in {1, 2},
        fallback \in BOOLEAN, proc \in ProcBehaviours, signalKind \in SignalKinds,
        notifyFails \in BOOLEAN}

Inputs == PortfolioInputs \cup CalendarInputs \cup ScoringInputs

ConfigOf(in) ==
    [Symbols |-> in.Symbols, LongCount |-> in.LongCount, ShortCount |-> in.ShortCount,
     LookbackDays |-> in.LookbackDays, RebalanceFrequencyDays |-> in.RebalanceFrequencyDays,
     InitialCapital |-> in.InitialCapital, StrategyCode |-> in.StrategyCode,
     StrategyParams |-> in.StrategyParams,
     FallbackToBuiltinOnPythonError |-> in.FallbackToBuiltinOnPythonError]

WorldOf(in, numDates) ==
    [numDates |-> numDates, path |-> in.path, missing |-> in.missing, bench |-> in.bench,
     feedFails |-> in.feedFails, proc |-> in.proc, signalKind |-> in.signalKind,
     notifyFails |-> in.notifyFails]

\* -------------------------------------------------------------- the start
\* The locals of RunAsync and of the sandbox before the first statement.
InitLocals ==
    /\ symbols = <<>>
    /\ barsBySymbol = <<>>
    /\ benchmarkBars = <<>>
    /\ commonDates = <<>>
    /\ closeMap = <<>>
    /\ pythonSignals = NoSignals
    /\ pythonExecution = NoSummary
    /\ tempDir = "none"
    /\ process = "none"
    /\ benchmarkStart = 0
    /\ positions = <<>>
    /\ navSeries = <<>>
    /\ equityCurve = <<>>
    /\ drawdownSeries = <<>>
    /\ dailyReturns = <<>>
    /\ benchmarkDailyReturns = <<>>
    /\ txs = <<>>
    /\ nav = 0
    /\ totalTurnover = 0
    /\ peakNav = 0
    /\ i = 0
    /\ events = <<>>
    /\ rebalances = <<>>
    /\ result = NoResult
    /\ thrown = NoException

InitRun ==
    /\ pc = "request"
    /\ runs = <<>>
    /\ hubSent = <<>>
    /\ InitLocals

Init ==
    /\ \E in \in Inputs :
        /\ cfg = ConfigOf(in)
        /\ world = WorldOf(in, MaxDate)
    /\ token = CancellationTokenNone
    /\ cacheFiles = <<>> /\ fetch = <<>>
    /\ store = <<>> /\ calls = <<>>
    /\ InitRun

\* ------------------------------------------- RunsController / RunService
RunRecord(status, errorMessage, res) ==
    [Status |-> status, ErrorMessage |-> errorMessage, Result |-> res]

\* POST /api/runs: a request without symbols is refused; otherwise Start adds the
\* run to the registry and hands RunAsync to a task.
CreateRun ==
    /\ pc = "request"
    /\ IF Len(cfg.Symbols) = 0
       THEN /\ pc' = "rejected"
            /\ UNCHANGED runs
       ELSE /\ runs' = Append(runs, RunRecord("running", NoException, NoResult))
            /\ pc' = "setup"
    /\ UNCHANGED <<cfg, world, store, calls, token, cacheFiles, fetch, hubSent, setupVars, scoringVars, loopVars, result, thrown>>

\* The id of the run this task executes (Start's run.RunId).
RunId == Len(runs)

\* RunAsync up to the call of the strategy service: symbols, bars, calendar.
Setup ==
    /\ pc = "setup"
    /\ LET syms  == NormalizeSymbols(cfg.Symbols)
           bars  == [s \in Range(syms) |-> GetBars(s)]
           dates == IntersectDates([k \in 1..Len(syms) |->
                        {bars[syms[k]][j].Date : j \in 1..Len(bars[syms[k]])}])
       IN /\ symbols' = syms
          /\ IF ~EnoughSymbols(syms, cfg)
             THEN /\ thrown' = Exception("InvalidOperationException",
                                  "Not enough symbols provided for long/short selection.")
                  /\ pc' = "thrown"
                  /\ UNCHANGED <<barsBySymbol, benchmarkBars, commonDates, closeMap>>
             ELSE IF ThrowIfCancellationRequested(token)
             THEN /\ thrown' = Exception("OperationCanceledException", "The operation was canceled.")
                  /\ pc' = "thrown"
                  /\ UNCHANGED <<barsBySymbol, benchmarkBars, commonDates, closeMap>>
             ELSE IF world.feedFails
             THEN /\ thrown' = Exception("HttpRequestException", "Market data request failed.")
                  /\ pc' = "thrown"
                  /\ UNCHANGED <<barsBySymbol, benchmarkBars, commonDates, closeMap>>
             ELSE /\ barsBySymbol' = bars
                  /\ benchmarkBars' = GetBars("SPY")
                  /\ commonDates' = dates
                  /\ IF ~EnoughDates(dates, cfg)
                     THEN /\ thrown' = Exception("InvalidOperationException",
                                  "Insufficient overlapping date coverage across symbols.")
                          /\ pc' = "thrown"
                          /\ UNCHANGED closeMap
                     ELSE /\ closeMap' = [s \in Range(syms) |-> ToCloseMap(bars[s])]
                          /\ pc' = "py_validate"
                          /\ UNCHANGED thrown
    /\ UNCHANGED <<cfg, world, store, calls, token, cacheFiles, fetch, serviceVars, scoringVars, loopVars, result>>

\* BuildSignalsByDateAsync up to the creation of the temporary directory, which
\* stands before the try block: what Directory.CreateDirectory throws leaves the
\* method and RunAsync.
PyValidate ==
    /\ pc = "py_validate"
    /\ IF cfg.StrategyCode.text # "code"
       THEN /\ pythonExecution' = Summary(FALSE, FALSE, TRUE,
                    "No custom strategyCode provided. Using built-in momentum ranking.",
                    0, NoSnippet, "null")
            /\ pc' = "scored"
            /\ UNCHANGED <<tempDir, thrown>>
       ELSE IF cfg.StrategyCode.length > MaxCodeLength
       THEN /\ pythonExecution' = Summary(TRUE, FALSE, FALSE, "Strategy code is too large.",
                    0, NoSnippet, "validation")
            /\ pc' = "scored"
            /\ UNCHANGED <<tempDir, thrown>>
       ELSE IF ValidateParams(cfg.StrategyParams) # "null"
       THEN /\ pythonExecution' = Summary(TRUE, FALSE, FALSE,
                    ValidateParams(cfg.StrategyParams), 0, NoSnippet, "validation")
            /\ pc' = "scored"
            /\ UNCHANGED <<tempDir, thrown>>
       ELSE IF world.proc.fails = "mkdir"
       THEN /\ thrown' = Exception("IOException", "The directory could not be created.")
            /\ pc' = "thrown"
            /\ UNCHANGED <<tempDir, pythonExecution>>
       ELSE /\ tempDir' = "exists"
            /\ pc' = "py_prepare"
            /\ UNCHANGED <<pythonExecution, thrown>>
    /\ pythonSignals' = NoSignals
    /\ UNCHANGED <<cfg, world, store, calls, token, cacheFiles, fetch, serviceVars, setupVars, process, loopVars, result>>

\* The finally block: Directory.Delete(tempDir, recursive: true), whose failure is
\* swallowed and leaves the directory where it is.
DeleteTempDir(proc) == IF proc.fails = "delete" THEN "exists" ELSE "deleted"

\* BuildInputPayload: strategy_input.json, written once before the process starts:
\* the dates it is given and, per symbol, the close of each of them.
BuildInputPayload(dates, closes, syms) ==
    [dates |-> dates,
     close |-> [s \in Range(syms) |-> [d \in Range(dates) |-> closes[s][d]]]]

\* The outcome built by catch (Exception ex).
ExceptionOutcome ==
    [summary |-> Summary(TRUE, FALSE, FALSE,
                    "Python strategy execution failed unexpectedly.", 0,
                    Snippet(Truncate(60, MaxStderrLength)), "exception"),
     signals |-> NoSignals]

\* Writing the input files and starting the subprocess; a failure, a cancelled
\* write included, is caught and reported as an outcome.
PyPrepare ==
    /\ pc = "py_prepare"
    /\ IF world.proc.fails \in {"write", "start"} \/ ThrowIfCancellationRequested(token)
       THEN /\ pythonExecution' = ExceptionOutcome.summary
            /\ tempDir' = DeleteTempDir(world.proc)
            /\ pc' = "scored"
            /\ UNCHANGED process
       ELSE /\ process' = "running"
            /\ pc' = "py_wait"
            /\ UNCHANGED <<pythonExecution, tempDir>>
    /\ UNCHANGED <<cfg, world, store, calls, token, cacheFiles, fetch, serviceVars, setupVars, pythonSignals, loopVars, result, thrown>>

\* Task.WhenAny(waitTask, timeoutTask) and everything after it. A cancelled token
\* ends both tasks cancelled: either timeoutTask is first (the timeout branch) or
\* waitTask is and awaiting it throws into the catch. After an exit the method
\* awaits stdoutTask and stderrTask, which the time limit does not cover: while
\* the pipe stays open the method does not go on.
PyWait ==
    /\ pc = "py_wait"
    /\ \E first \in FirstCompleted(world.proc) \cup
                     (IF ThrowIfCancellationRequested(token)
                      THEN {"timeout", "cancelled"} ELSE {}) :
        LET outcome == IF first = "timeout" THEN TimeoutOutcome
                       ELSE IF first = "cancelled" THEN ExceptionOutcome
                       ELSE ExitOutcome(world.proc, world.signalKind, commonDates)
        IN /\ first = "exit" => world.proc.stdout # "unclosed"
           /\ process' \in IF first = "cancelled" THEN {"running"}
                            ELSE IF first = "exit" THEN {"exited"}
                            ELSE IF ThrowIfCancellationRequested(token)
                            THEN {"killed", "exited"}
                            ELSE {AfterKill(world.proc)}
           /\ pythonExecution' = outcome.summary
           /\ pythonSignals' = outcome.signals
    /\ tempDir' = DeleteTempDir(world.proc)
    /\ pc' = "scored"
    /\ UNCHANGED <<cfg, world, store, calls, token, cacheFiles, fetch, serviceVars, setupVars, loopVars, result, thrown>>

\* ---------------------------------------------- engine: after the scoring
\* A failure that says nothing of what the sandbox reported.
ScoringFailureBare(summary) ==
    [present |-> TRUE, type |-> "InvalidOperationException",
     message |-> <<"Python strategy failed">>, errorType |-> "null", detail |-> NoSnippet]

\* The exception RunAsync throws for a failed scoring when fallback is off: its
\* message carries the error kind, the sandbox's message and, when there is one,
\* the stderr excerpt.
ScoringFailure(summary) ==
    [present |-> TRUE, type |-> "InvalidOperationException",
     message |-> <<"Python strategy failed">> \o summary.Message,
     errorType |-> IF summary.ErrorType = "null" THEN "error" ELSE summary.ErrorType,
     detail |-> IF summary.StderrSnippet.isNull \/ summary.StderrSnippet.length = 0
                THEN NoSnippet ELSE summary.StderrSnippet]

\* A summary that keeps quiet about the fallback.
WithoutFallbackMark(summary) == summary

\* The summary of a failed scoring the run goes on without.
WithFallback(summary) ==
    [summary EXCEPT !.UsedFallback = TRUE,
                    !.Message = @ \o <<"Falling back to built-in momentum ranking.">>]

\* The signals the run ranks by after a failed scoring with fallback on.
FallbackSignals == NoSignals

\* RunAsync from the strategy service's answer to the first loop test.
AfterScoring ==
    /\ pc = "scored"
    /\ LET failed == pythonExecution.Requested /\ ~pythonExecution.Succeeded
           benchmarkMap == ToCloseMap(benchmarkBars)
       IN IF failed /\ ~cfg.FallbackToBuiltinOnPythonError
          THEN /\ thrown' = ScoringFailure(pythonExecution)
               /\ pc' = "thrown"
               /\ UNCHANGED <<pythonSignals, pythonExecution, loopVars>>
          ELSE /\ pythonExecution' = IF failed THEN WithFallback(pythonExecution)
                                     ELSE pythonExecution
               /\ pythonSignals' = IF failed THEN FallbackSignals ELSE pythonSignals
               /\ IF commonDates[1] \notin DOMAIN benchmarkMap /\ DOMAIN benchmarkMap = {}
                  THEN /\ thrown' = Exception("InvalidOperationException",
                                              "Sequence contains no elements")
                       /\ pc' = "thrown"
                       /\ UNCHANGED loopVars
                  ELSE /\ benchmarkStart' =
                            IF commonDates[1] \in DOMAIN benchmarkMap
                            THEN benchmarkMap[commonDates[1]]
                            ELSE benchmarkBars[1].Close
                       /\ positions' = [s \in Range(symbols) |-> 0]
                       /\ navSeries' = <<cfg.InitialCapital>>
                       /\ nav' = cfg.InitialCapital
                       /\ peakNav' = cfg.InitialCapital
                       /\ totalTurnover' = 0
                       /\ i' = cfg.LookbackDays + 1
                       /\ pc' = "loop"
                       /\ UNCHANGED <<equityCurve, drawdownSeries, dailyReturns,
                                      benchmarkDailyReturns, txs, events, rebalances, thrown>>
    /\ UNCHANGED <<cfg, world, store, calls, token, cacheFiles, fetch, serviceVars, setupVars, tempDir, process, result>>

\* ------------------------------------------------------ engine: the loop
\* Messages whose progress figure depends on which run sends them.
ProgressMessagesTagged(id, event) ==
    << [type |-> "runProgress", runId |-> id,
        payload |-> <<event.ProgressPct + id, event.CurrentDate>>],
       [type |-> "equityPoint", runId |-> id, payload |-> event.EquityPoint],
       [type |-> "drawdownPoint", runId |-> id, payload |-> event.DrawdownPoint],
       [type |-> "dailyReturnPoint", runId |-> id, payload |-> event.DailyReturnPoint],
       [type |-> "metricSnapshot", runId |-> id, payload |-> event.MetricsSnapshot],
       [type |-> "statsSnapshot", runId |-> id, payload |-> event.StatsSnapshot] >>

\* The six hub messages Start's onProgress callback sends for one event.
ProgressMessages(id, event) ==
    << [type |-> "runProgress", runId |-> id,
        payload |-> <<event.ProgressPct, event.CurrentDate>>],
       [type |-> "equityPoint", runId |-> id, payload |-> event.EquityPoint],
       [type |-> "drawdownPoint", runId |-> id, payload |-> event.DrawdownPoint],
       [type |-> "dailyReturnPoint", runId |-> id, payload |-> event.DailyReturnPoint],
       [type |-> "metricSnapshot", runId |-> id, payload |-> event.MetricsSnapshot],
       [type |-> "statsSnapshot", runId |-> id, payload |-> event.StatsSnapshot] >>

\* A callback invoked twice for the same day.
OnProgressTwice(emitted, event) == Append(Append(emitted, event), event)

\* onProgress(new ProgressEvent(...)): the event joins those handed out.
OnProgress(emitted, event) == Append(emitted, event)

\* One iteration of the day loop (the token RunAsync is given by Start is
\* CancellationToken.None, so the cancellation test never throws).
Day ==
    /\ pc = "loop"
    /\ i < Len(commonDates)
    /\ IF ThrowIfCancellationRequested(token)
       THEN /\ thrown' = Exception("OperationCanceledException", "The operation was canceled.")
            /\ pc' = "thrown"
            /\ UNCHANGED <<i, nav, navSeries, dailyReturns, benchmarkDailyReturns,
                           equityCurve, peakNav, drawdownSeries, totalTurnover, txs,
                           positions, rebalances, events, hubSent>>
       ELSE LET date        == commonDates[i + 1]
                   prevDate    == commonDates[i]
                   dailyReturn == PortfolioReturn(positions, closeMap, symbols, date, prevDate)
                   newNav      == NextNav(nav, dailyReturn)
                   navs        == Append(navSeries, newNav)
                   returnPoint == [Date |-> DateKey(date), DailyReturn |-> dailyReturn]
                   returns     == Append(dailyReturns, returnPoint)
                   benchmarkMap == ToCloseMap(benchmarkBars)
                   equityPoint == [Date |-> DateKey(date), Nav |-> newNav,
                                   BenchmarkNav |-> BenchmarkNav(benchmarkMap, benchmarkStart, date,
                                                                 cfg.InitialCapital)]
                   peak        == NextPeak(peakNav, newNav)
                   drawdownPoint == [Date |-> DateKey(date), Drawdown |-> Drawdown(newNav, peak)]
                   rebalance   == IsRebalance(i, cfg)
                   lookbackDate == commonDates[i - cfg.LookbackDays + 1]
                   ranked      == Ranked(pythonSignals, symbols, closeMap, lookbackDate, date)
                   long        == LongSelection(ranked, cfg)
                   short       == ShortSelection(ranked, cfg)
                   nextWeights == NextWeights(symbols, long, short)
                   turnover    == IF rebalance
                                  THEN totalTurnover + TurnoverOf(symbols, positions, nextWeights)
                                  ELSE totalTurnover
                   returnValues == [k \in 1..Len(returns) |-> returns[k].DailyReturn]
                   metrics     == ComputeMetrics(navs, returnValues, turnover)
                   event       == [ProgressPct |-> ProgressPct(i, Len(commonDates)),
                                   CurrentDate |-> DateKey(date),
                                   EquityPoint |-> equityPoint,
                                   DrawdownPoint |-> drawdownPoint,
                                   DailyReturnPoint |-> returnPoint,
                                   MetricsSnapshot |-> metrics,
                                   StatsSnapshot |->
                                       ComputeLiveStatsSnapshot(date, metrics, returnValues)]
               IN /\ nav' = newNav
                  /\ navSeries' = navs
                  /\ dailyReturns' = returns
                  /\ benchmarkDailyReturns' =
                        Append(benchmarkDailyReturns, BenchmarkDailyReturn(benchmarkMap, date, prevDate))
                  /\ equityCurve' = Append(equityCurve, equityPoint)
                  /\ peakNav' = peak
                  /\ drawdownSeries' = Append(drawdownSeries, drawdownPoint)
                  /\ totalTurnover' = turnover
                  /\ txs' = IF rebalance
                            THEN txs \o Transactions(symbols, positions, nextWeights, closeMap, date,
                                                     newNav)
                            ELSE txs
                  /\ positions' = IF rebalance THEN nextWeights ELSE positions
                  /\ rebalances' = IF rebalance
                                   THEN Append(rebalances,
                                            [index |-> i, date |-> date,
                                             custom |-> UsesCustomSignals(pythonSignals, date),
                                             ranked |-> ranked, long |-> long, short |-> short,
                                             weights |-> nextWeights])
                                   ELSE rebalances
                  /\ IF CagrThrows(navs, Len(returns))
                     THEN /\ thrown' = Exception("OverflowException",
                                                 "Value was either too large or too small for a Decimal.")
                          /\ pc' = "thrown"
                          /\ UNCHANGED <<i, events, hubSent>>
                     ELSE /\ events' = OnProgress(events, event)
                          /\ hubSent' = hubSent \o ProgressMessages(RunId, event)
                          /\ i' = i + 1
                          /\ UNCHANGED <<pc, thrown>>
    /\ UNCHANGED <<cfg, world, store, calls, token, cacheFiles, fetch, runs, setupVars, scoringVars, benchmarkStart, result>>

\* The non-zero final weights, largest absolute weight first (at most ten).
RECURSIVE OrderByAbsDescending(_)
OrderByAbsDescending(rows) ==
    IF rows = <<>> THEN <<>>
    ELSE LET rest == OrderByAbsDescending(Tail(rows))
             h    == Head(rows)
             ahead == {k \in 1..Len(rest) : Abs(rest[k].Weight) <= Abs(h.Weight)}
             pos  == IF ahead = {} THEN Len(rest) + 1
                     ELSE CHOOSE k \in ahead : \A j \in ahead : k <= j
         IN SubSeq(rest, 1, pos - 1) \o <<h>> \o SubSeq(rest, pos, Len(rest))

TopHoldings(syms, weights) ==
    Take(OrderByAbsDescending(
            SelectSeq([k \in 1..Len(syms) |-> [Symbol |-> syms[k], Weight |-> weights[syms[k]]]],
                      LAMBDA h : h.Weight # 0)), 10)

\* RunAsync after the loop: the final metrics and the result.
Finish ==
    /\ pc = "loop"
    /\ ~(i < Len(commonDates))
    /\ result' =
          LET returnValues == [k \in 1..Len(dailyReturns) |-> dailyReturns[k].DailyReturn]
              finalMetrics == ComputeMetrics(navSeries, returnValues, totalTurnover)
          IN [present |-> TRUE, RunId |-> RunId, PythonExecution |-> pythonExecution,
                  Metrics |-> finalMetrics,
                  AdditionalStats |-> ComputeLiveStatsSnapshot(Last(commonDates), finalMetrics,
                                                               returnValues),
                  EquityCurve |-> equityCurve, DrawdownSeries |-> drawdownSeries,
                  DailyReturns |-> dailyReturns,
                  TopHoldings |-> TopHoldings(symbols, positions),
                  Transactions |-> txs]
    /\ pc' = "returned"
    /\ UNCHANGED <<cfg, world, store, calls, token, cacheFiles, fetch, serviceVars, setupVars, scoringVars, loopVars, thrown>>

\* --------------------------------------------- RunService: the run's end
\* RunRegistry.MarkCompleted / MarkFailed.
\* A completion that leaves the record as it was.
MarkCompletedNowhere(run, res) == run

MarkCompletedRecord(run, res) == [run EXCEPT !.Status = "completed", !.Result = res]
MarkFailedRecord(run, error) == [run EXCEPT !.Status = "error", !.ErrorMessage = error]

\* GET /api/runs/{runId}: 404 for an unknown id, 202 with the status and the error
\* message unless the run is completed and has a result, else the result.
GetRun(runId) ==
    IF runId \notin 1..Len(runs)
    THEN [code |-> 404, status |-> "none", errorMessage |-> NoException, result |-> NoResult]
    ELSE IF runs[runId].Status # "completed" \/ ~runs[runId].Result.present
    THEN [code |-> 202, status |-> runs[runId].Status,
          errorMessage |-> runs[runId].ErrorMessage, result |-> NoResult]
    ELSE [code |-> 200, status |-> "none", errorMessage |-> NoException,
          result |-> runs[runId].Result]

\* GET /api/runs/{runId}/transactions: the transactions of whatever result the
\* record holds, an empty list without one.
GetTransactions(runId) ==
    IF runId \notin 1..Len(runs) \/ ~runs[runId].Result.present
    THEN <<>>
    ELSE runs[runId].Result.Transactions

MarkCompleted ==
    /\ pc = "returned"
    /\ runs' = [runs EXCEPT ![RunId] = MarkCompletedRecord(@, result)]
    /\ pc' = "notify"
    /\ UNCHANGED <<cfg, world, store, calls, token, cacheFiles, fetch, hubSent, setupVars, scoringVars, loopVars, result, thrown>>

\* await SendAsync("runCompleted"): inside the try block, so a failure is caught.
SendCompleted ==
    /\ pc = "notify"
    /\ IF world.notifyFails
       THEN /\ thrown' = Exception("HubException", "The runCompleted message was not sent.")
            /\ pc' = "thrown"
            /\ UNCHANGED hubSent
       ELSE /\ hubSent' = Append(hubSent, [type |-> "runCompleted", runId |-> RunId,
                                          payload |-> <<>>])
            /\ pc' = "end"
            /\ UNCHANGED thrown
    /\ UNCHANGED <<cfg, world, store, calls, token, cacheFiles, fetch, runs, setupVars, scoringVars, loopVars, result>>

\* The catch block of the run's task.
MarkFailed ==
    /\ pc = "thrown"
    /\ runs' = [runs EXCEPT ![RunId] = MarkFailedRecord(@, thrown)]
    /\ pc' = "end"
    /\ UNCHANGED <<cfg, world, store, calls, token, cacheFiles, fetch, hubSent, setupVars, scoringVars, loopVars, result, thrown>>

Next ==
    \/ CreateRun
    \/ Setup
    \/ PyValidate
    \/ PyPrepare
    \/ PyWait
    \/ AfterScoring
    \/ Day
    \/ Finish
    \/ MarkCompleted
    \/ SendCompleted
    \/ MarkFailed

Spec == Init /\ [][Next]_vars

\* ------------------------------------------ the engine under cancellation
\* RunAsync called with the token of a source its caller may cancel at any moment,
\* before the call included; onProgress is the callback Start builds for run 1.
InitEngine ==
    /\ \E in \in {Plain(<<"A", "B", "C">>, 1, 1, lookback, freq, 10, DefaultPaths,
                         NoMissing, "full", FALSE) :
                       lookback \in Lookbacks, freq \in Frequencies}
                \cup
                {Scored(1, 1, 1, SmallCode, FlatParams, fallback, proc, "latest", FALSE) :
                       fallback \in BOOLEAN, proc \in ProcBehaviours} :
        /\ cfg = ConfigOf(in)
        /\ world = WorldOf(in, MaxDate)
    /\ \E requested \in BOOLEAN :
        token = [canBeCanceled |-> TRUE, requested |-> requested]
    /\ cacheFiles = <<>> /\ fetch = <<>>
    /\ store = <<>> /\ calls = <<>>
    /\ pc = "setup"
    /\ runs = <<RunRecord("running", NoException, NoResult)>>
    /\ hubSent = <<>>
    /\ InitLocals

\* The caller cancels the source of the token.
Cancel ==
    /\ token.canBeCanceled
    /\ ~token.requested
    /\ token' = [token EXCEPT !.requested = TRUE]
    /\ UNCHANGED <<cfg, world, store, calls, cacheFiles, fetch, pc, serviceVars, setupVars, scoringVars, loopVars, result, thrown>>

NextEngine ==
    \/ Cancel
    \/ Setup
    \/ PyValidate
    \/ PyPrepare
    \/ PyWait
    \/ AfterScoring
    \/ Day
    \/ Finish

SpecEngine == InitEngine /\ [][NextEngine]_vars

\* ------------------------------------------------- the same request again
\* The client posts the configuration of a finished run once more: a new task with
\* fresh locals; the registry and the hub keep what the earlier run left.
RunAgain ==
    /\ pc = "end"
    /\ Len(runs) < MaxRuns
    /\ pc' = "request"
    /\ symbols' = <<>> /\ barsBySymbol' = <<>> /\ benchmarkBars' = <<>>
    /\ commonDates' = <<>> /\ closeMap' = <<>>
    /\ pythonSignals' = NoSignals /\ pythonExecution' = NoSummary
    /\ tempDir' = "none" /\ process' = "none"
    /\ benchmarkStart' = 0 /\ positions' = <<>> /\ navSeries' = <<>>
    /\ equityCurve' = <<>> /\ drawdownSeries' = <<>> /\ dailyReturns' = <<>>
    /\ benchmarkDailyReturns' = <<>> /\ txs' = <<>> /\ nav' = 0
    /\ totalTurnover' = 0 /\ peakNav' = 0 /\ i' = 0 /\ events' = <<>>
    /\ rebalances' = <<>> /\ result' = NoResult /\ thrown' = NoException
    /\ UNCHANGED <<cfg, world, store, calls, token, cacheFiles, fetch, runs, hubSent>>

NextTwice ==
    \/ Next
    \/ RunAgain

SpecTwice == Init /\ [][NextTwice]_vars

\* ------------------------------------------------- the 40-day scenario
\* Universe {A,B,C,D,E}, 40 aligned trading days, lookbackDays = 5,
\* rebalanceFrequencyDays = 5, longCount = 2, shortCount = 1, no scoring code.
ScenarioConfig ==
    [Symbols |-> <<"A", "B", "C", "D", "E">>, LongCount |-> 2, ShortCount |-> 1,
     LookbackDays |-> 5, RebalanceFrequencyDays |-> 5, InitialCapital |-> Dec(10),
     StrategyCode |-> NoCode, StrategyParams |-> NoParams,
     FallbackToBuiltinOnPythonError |-> FALSE]

ScenarioDates == [count |-> 40]

InitScenario ==
    /\ cfg = ScenarioConfig
    /\ \E path \in [Universe -> {"flat", "zig", "zag"}] :
        world = [numDates |-> ScenarioDates.count, path |-> path,
                 missing |-> [s \in Universe |-> 0], bench |-> "full",
                 feedFails |-> FALSE, proc |-> GoodProc, signalKind |-> "empty",
                 notifyFails |-> FALSE]
    /\ token = CancellationTokenNone
    /\ cacheFiles = <<>> /\ fetch = <<>>
    /\ store = <<>> /\ calls = <<>>
    /\ InitRun

NextScenario ==
    \/ CreateRun
    \/ Setup
    \/ PyValidate
    \/ AfterScoring
    \/ Day
    \/ Finish
    \/ MarkCompleted
    \/ SendCompleted

SpecScenario == InitScenario /\ [][NextScenario]_vars

\* ------------------------------------------- the calculators on their own
\* Daily returns, in percent, of the series tried.
ReturnPercents == {-10, -1, 0, 1}

\* The series of at most MaxSeries returns.
ReturnSeries ==
    UNION {[1..n -> {(v * Scale) \div 100 : v \in ReturnPercents}] : n \in 1..MaxSeries}

\* The NAV history of a capital under a return series: the capital, then the
\* compounded NAVs.
RECURSIVE Compound(_, _)
Compound(capital, returns) ==
    IF returns = <<>> THEN <<capital>>
    ELSE LET before == Compound(capital, Take(returns, Len(returns) - 1))
         IN Append(before, NextNav(Last(before), Last(returns)))

\* A return series and the NAV history it gives, as RunAsync holds them after the
\* series' last day.
InitMetrics ==
    /\ \E capital \in Capitals, returns \in ReturnSeries :
        /\ cfg = [ScenarioConfig EXCEPT !.InitialCapital = Dec(capital)]
        /\ dailyReturns = [k \in 1..Len(returns) |->
                              [Date |-> DateKey(k), DailyReturn |-> returns[k]]]
        /\ navSeries = Compound(Dec(capital), returns)
    /\ world = [numDates |-> MaxSeries, path |-> DefaultPaths, missing |-> NoMissing,
                bench |-> "full", feedFails |-> FALSE, proc |-> GoodProc,
                signalKind |-> "empty", notifyFails |-> FALSE]
    /\ token = CancellationTokenNone
    /\ cacheFiles = <<>> /\ fetch = <<>>
    /\ store = <<>> /\ calls = <<>>
    /\ pc = "metrics"
    /\ runs = <<>> /\ hubSent = <<>>
    /\ symbols = <<>> /\ barsBySymbol = <<>> /\ benchmarkBars = <<>>
    /\ commonDates = <<>> /\ closeMap = <<>>
    /\ pythonSignals = NoSignals /\ pythonExecution = NoSummary
    /\ tempDir = "none" /\ process = "none"
    /\ benchmarkStart = 0 /\ positions = <<>>
    /\ equityCurve = <<>> /\ drawdownSeries = <<>>
    /\ benchmarkDailyReturns = <<>> /\ txs = <<>> /\ nav = Last(navSeries)
    /\ totalTurnover = 0 /\ peakNav = 0 /\ i = 0 /\ events = <<>>
    /\ rebalances = <<>> /\ result = NoResult /\ thrown = NoException

\* ComputeMetrics and ComputeLiveStatsSnapshot applied to the series.
ApplyMetrics ==
    /\ pc = "metrics"
    /\ LET returnValues == [k \in 1..Len(dailyReturns) |-> dailyReturns[k].DailyReturn]
           metrics == ComputeMetrics(navSeries, returnValues, totalTurnover)
       IN IF CagrThrows(navSeries, Len(returnValues))
          THEN /\ thrown' = Exception("OverflowException",
                                      "Value was either too large or too small for a Decimal.")
               /\ pc' = "thrown"
               /\ UNCHANGED result
          ELSE /\ result' = [present |-> TRUE, Metrics |-> metrics,
                             AdditionalStats |->
                                ComputeLiveStatsSnapshot(Len(dailyReturns), metrics,
                                                         returnValues)]
               /\ pc' = "measured"
               /\ UNCHANGED thrown
    /\ UNCHANGED <<cfg, world, store, calls, token, cacheFiles, fetch, serviceVars, setupVars, scoringVars, loopVars>>

NextMetrics ==
    \/ ApplyMetrics

SpecMetrics == InitMetrics /\ [][NextMetrics]_vars

\* ------------------------------------------- runs that fetch side by side
\* Each task of Task.Run calls GetBarsAsync for its symbols in turn and then for
\* SPY; the calls of different tasks interleave at their awaits and meet in the
\* cache directory. What a call throws leaves RunAsync and is recorded by the
\* catch block of the task it belongs to.
InitConcurrent ==
    /\ cfg = ScenarioConfig
    /\ world = [numDates |-> MaxDate, path |-> DefaultPaths, missing |-> NoMissing,
                bench |-> "full", feedFails |-> FALSE, proc |-> GoodProc,
                signalKind |-> "empty", notifyFails |-> FALSE]
    /\ token = CancellationTokenNone
    /\ \E cached \in [{"A", "B", "SPY"} -> BOOLEAN] :
        cacheFiles = [s \in {"A", "B", "SPY"} |-> [exists |-> cached[s], writers |-> {}]]
    /\ \E first \in [1..MaxTasks -> {"A", "B"}] :
        fetch = [t \in 1..MaxTasks |->
                    [symbols |-> <<first[t], "SPY">>, k |-> 1, pc |-> "read"]]
    /\ store = <<>> /\ calls = <<>>
    /\ pc = "fetching"
    /\ runs = [t \in 1..MaxTasks |-> RunRecord("running", NoException, NoResult)]
    /\ hubSent = <<>>
    /\ InitLocals

\* File.Exists(cacheFile), File.ReadAllTextAsync and Deserialize: a file that exists
\* and is whole is returned; one that a writer still holds open is empty or cut
\* short (or locked), and reading it throws.
ReadCache(t) ==
    /\ t \in DOMAIN fetch
    /\ fetch[t].pc = "read"
    /\ LET file == cacheFiles[fetch[t].symbols[fetch[t].k]]
       IN IF ~file.exists
          THEN /\ fetch' = [fetch EXCEPT ![t].pc = "download"]
               /\ UNCHANGED runs
          ELSE IF file.writers # {}
          THEN /\ fetch' = [fetch EXCEPT ![t].pc = "thrown"]
               /\ runs' = [runs EXCEPT ![t] = MarkFailedRecord(@,
                                Exception("JsonException", "The cache file is not valid JSON."))]
          ELSE /\ fetch' = [fetch EXCEPT ![t].pc =
                                IF fetch[t].k = Len(fetch[t].symbols) THEN "fetched" ELSE "read",
                                         ![t].k = Min(@ + 1, Len(fetch[t].symbols))]
               /\ UNCHANGED runs
    /\ UNCHANGED <<cfg, world, store, calls, token, cacheFiles, pc, hubSent, setupVars, scoringVars, loopVars, result, thrown>>

\* httpClient.GetAsync, ParseStooqCsv, Serialize and the start of
\* File.WriteAllTextAsync, which creates or empties the file; where another call
\* holds the file open to write, opening it may fail with a sharing violation.
Download(t) ==
    /\ t \in DOMAIN fetch
    /\ fetch[t].pc = "download"
    /\ LET symbol == fetch[t].symbols[fetch[t].k]
       IN \E opened \in IF cacheFiles[symbol].writers = {} THEN {TRUE} ELSE BOOLEAN :
            IF opened
            THEN /\ cacheFiles' = [cacheFiles EXCEPT ![symbol] =
                        [exists |-> TRUE, writers |-> @.writers \cup {t}]]
                 /\ fetch' = [fetch EXCEPT ![t].pc = "write"]
                 /\ UNCHANGED runs
            ELSE /\ fetch' = [fetch EXCEPT ![t].pc = "thrown"]
                 /\ runs' = [runs EXCEPT ![t] = MarkFailedRecord(@,
                                Exception("IOException", "The cache file is in use."))]
                 /\ UNCHANGED cacheFiles
    /\ UNCHANGED <<cfg, world, store, calls, token, pc, hubSent, setupVars, scoringVars, loopVars, result, thrown>>

\* File.WriteAllTextAsync completes and GetBarsAsync returns the parsed bars.
WriteCache(t) ==
    /\ t \in DOMAIN fetch
    /\ fetch[t].pc = "write"
    /\ cacheFiles' = [cacheFiles EXCEPT ![fetch[t].symbols[fetch[t].k]].writers = @ \ {t}]
    /\ fetch' = [fetch EXCEPT ![t].pc =
                        IF fetch[t].k = Len(fetch[t].symbols) THEN "fetched" ELSE "read",
                              ![t].k = Min(@ + 1, Len(fetch[t].symbols))]
    /\ UNCHANGED <<cfg, world, store, calls, token, pc, serviceVars, setupVars, scoringVars, loopVars, result, thrown>>

NextConcurrent ==
    \/ \E t \in 1..MaxTasks : ReadCache(t)
    \/ \E t \in 1..MaxTasks : Download(t)
    \/ \E t \in 1..MaxTasks : WriteCache(t)

SpecConcurrent == InitConcurrent /\ [][NextConcurrent]_vars

\* ------------------------------------------------- the client's run store
\* The client (useRunStore, apiClient, wsClient) against the run service; the
\* backend's run is reduced to what the client sees of it: the record GET
\* /api/runs/{runId} answers from and the hub messages. A point is kept as the id
\* of the run it belongs to; the progress fields and the snapshots are left out.

\* The state startRun and reset both set, up to the status.
ClearedStore(status) ==
    [status |-> status, runId |-> 0, liveEquityCurve |-> <<>>, result |-> NoResult,
     connection |-> 0]

InitClient ==
    /\ cfg = ScenarioConfig
    /\ world = [numDates |-> MaxDate, path |-> DefaultPaths, missing |-> NoMissing,
                bench |-> "full", feedFails |-> FALSE, proc |-> GoodProc,
                signalKind |-> "empty", notifyFails |-> FALSE]
    /\ token = CancellationTokenNone
    /\ cacheFiles = <<>> /\ fetch = <<>>
    /\ store = ClearedStore("idle")
    /\ calls = <<>>
    /\ pc = "client"
    /\ runs = <<>>
    /\ hubSent = <<>>
    /\ InitLocals

\* startRun is called: with a connection in the store it stops it and waits for
\* that; without one it goes straight on to clear the store and to post the run.
StartRun ==
    /\ pc = "client"
    /\ Len(calls) < MaxCalls
    /\ IF store.connection # 0
       THEN /\ calls' = Append([calls EXCEPT ![store.connection].hub = "stopped"],
                               [pc |-> "stopping", runId |-> 0, hub |-> "none"])
            /\ UNCHANGED store
       ELSE /\ calls' = Append(calls, [pc |-> "creating", runId |-> 0, hub |-> "none"])
            /\ store' = ClearedStore("running")
    /\ UNCHANGED <<cfg, world, token, cacheFiles, fetch, pc, serviceVars, setupVars, scoringVars, loopVars, result, thrown>>

\* await current.stop() returns: the call clears the store and posts the run.
Stopped(c) ==
    /\ c \in 1..Len(calls)
    /\ calls[c].pc = "stopping"
    /\ store' = ClearedStore("running")
    /\ calls' = [calls EXCEPT ![c].pc = "creating"]
    /\ UNCHANGED <<cfg, world, token, cacheFiles, fetch, pc, serviceVars, setupVars, scoringVars, loopVars, result, thrown>>

\* await createRun(config) returns: the service has added the run (Start), the
\* call stores its id and opens its hub connection; a refused request is caught.
Created(c) ==
    /\ c \in 1..Len(calls)
    /\ calls[c].pc = "creating"
    /\ \E ok \in BOOLEAN :
        IF ok
        THEN /\ runs' = Append(runs, RunRecord("running", NoException, NoResult))
             /\ store' = [store EXCEPT !.runId = Len(runs) + 1]
             /\ calls' = [calls EXCEPT ![c].pc = "connecting", ![c].runId = Len(runs) + 1]
        ELSE /\ store' = [store EXCEPT !.status = "error"]
             /\ calls' = [calls EXCEPT ![c].pc = "done"]
             /\ UNCHANGED runs
    /\ UNCHANGED <<cfg, world, token, cacheFiles, fetch, pc, hubSent, setupVars, scoringVars, loopVars, result, thrown>>

\* await connectRunHub(...) returns: the connection has started and is stored, and
\* the call starts polling; a connection that does not start is caught.
Connected(c) ==
    /\ c \in 1..Len(calls)
    /\ calls[c].pc = "connecting"
    /\ \E ok \in BOOLEAN :
        IF ok
        THEN /\ store' = [store EXCEPT !.connection = c]
             /\ calls' = [calls EXCEPT ![c].pc = "polling", ![c].hub = "started"]
        ELSE /\ store' = [store EXCEPT !.status = "error"]
             /\ calls' = [calls EXCEPT ![c].pc = "done"]
    /\ UNCHANGED <<cfg, world, token, cacheFiles, fetch, pc, serviceVars, setupVars, scoringVars, loopVars, result, thrown>>

\* await waitForRunResult(nextRunId) ends: with the result once the answer is not
\* 202, by throwing on a pending answer whose status is error or when the time is
\* up; startRun sets the result, or the error in its catch block.
Poll(c) ==
    /\ c \in 1..Len(calls)
    /\ calls[c].pc = "polling"
    /\ LET answer == GetRun(calls[c].runId)
       IN \E timedOut \in BOOLEAN :
            /\ answer.code = 200 => ~timedOut
            /\ (answer.code = 202 /\ answer.status # "error") => timedOut
            /\ store' = IF answer.code = 200
                        THEN [store EXCEPT !.result = answer.result,
                                           !.status = "completed",
                                           !.liveEquityCurve = answer.result.EquityCurve]
                        ELSE [store EXCEPT !.status = "error"]
    /\ calls' = [calls EXCEPT ![c].pc = "done"]
    /\ UNCHANGED <<cfg, world, token, cacheFiles, fetch, pc, serviceVars, setupVars, scoringVars, loopVars, result, thrown>>

\* reset: stops the stored connection without waiting and clears the store.
Reset ==
    /\ pc = "client"
    /\ calls' = IF store.connection # 0
                THEN [calls EXCEPT ![store.connection].hub = "stopped"]
                ELSE calls
    /\ store' = ClearedStore("idle")
    /\ UNCHANGED <<cfg, world, token, cacheFiles, fetch, pc, serviceVars, setupVars, scoringVars, loopVars, result, thrown>>

\* The task of run r sends a point, or marks the run completed and sends
\* runCompleted, or fails; a started connection whose call asked for run r hands
\* the message to its handler (onEquityPoint, onCompleted).
ServerSends(r) ==
    /\ r \in 1..Len(runs)
    /\ runs[r].Status = "running"
    /\ LET heard == \E c \in 1..Len(calls) : calls[c].hub = "started" /\ calls[c].runId = r
       IN \E kind \in {"equityPoint", "runCompleted", "failed"} :
            /\ kind = "equityPoint" =>
                  \A k \in 1..Len(hubSent) : hubSent[k].runId # r
            /\ runs' = CASE kind = "runCompleted" ->
                               [runs EXCEPT ![r] = MarkCompletedRecord(@,
                                   [present |-> TRUE, RunId |-> r, EquityCurve |-> <<r>>])]
                          [] kind = "failed" ->
                               [runs EXCEPT ![r] = MarkFailedRecord(@,
                                   Exception("InvalidOperationException", "The run failed."))]
                          [] OTHER -> runs
            /\ hubSent' = IF kind = "failed" THEN hubSent
                          ELSE Append(hubSent, [type |-> kind, runId |-> r, payload |-> <<>>])
            /\ store' = CASE heard /\ kind = "equityPoint" ->
                               [store EXCEPT !.liveEquityCurve = Append(@, r),
                                             !.result = IF @.present
                                                        THEN [@ EXCEPT !.EquityCurve = Append(@, r)]
                                                        ELSE @]
                           [] heard /\ kind = "runCompleted" ->
                               [store EXCEPT !.status = "completed"]
                           [] OTHER -> store
    /\ UNCHANGED <<cfg, world, token, cacheFiles, fetch, calls, pc, setupVars, scoringVars, loopVars, result, thrown>>

NextClient ==
    \/ StartRun
    \/ \E c \in 1..MaxCalls : Stopped(c)
    \/ \E c \in 1..MaxCalls : Created(c)
    \/ \E c \in 1..MaxCalls : Connected(c)
    \/ \E c \in 1..MaxCalls : Poll(c)
    \/ Reset
    \/ \E r \in 1..MaxCalls : ServerSends(r)

SpecClient == InitClient /\ [][NextClient]_vars

\* ------------------------------------------------------------- properties
\* C1: the NAV history starts at the initial capital; every simulated day appends
\* the previous NAV times (1 + that day's portfolio return), which is also the NAV
\* of the day's equity point; a NAV once recorded is never changed.
C1_NavHistory ==
    /\ [](navSeries # <<>> =>
            /\ navSeries[1] = cfg.InitialCapital
            /\ Len(navSeries) = Len(dailyReturns) + 1
            /\ Len(equityCurve) = Len(dailyReturns)
            /\ \A k \in 1..Len(dailyReturns) :
                /\ navSeries[k + 1] =
                      RoundHalfEven(navSeries[k] * (Scale + dailyReturns[k].DailyReturn), Scale)
                /\ equityCurve[k].Nav = navSeries[k + 1])
    /\ [][/\ Len(navSeries') >= Len(navSeries)
          /\ Len(navSeries') <= Len(navSeries) + 1
          /\ SubSeq(navSeries', 1, Len(navSeries)) = navSeries]_vars

\* A run three days into the loop whose NAV has moved off the initial capital.
C1_Witness ==
    /\ Len(navSeries) >= 4
    /\ \E k \in 1..Len(dailyReturns) :
        dailyReturns[k].DailyReturn # 0 /\ navSeries[k + 1] # navSeries[k]
    /\ navSeries[Len(navSeries)] # cfg.InitialCapital

\* C2: every drawdown point is at most 0, and is exactly 0 on a day whose NAV
\* equals the running peak (the largest NAV so far, the initial capital included).
C2_DrawdownNeverPositive ==
    \A k \in 1..Len(drawdownSeries) :
        /\ drawdownSeries[k].Drawdown <= 0
        /\ (\A j \in 1..(k + 1) : navSeries[j] <= navSeries[k + 1])
              => drawdownSeries[k].Drawdown = 0

\* C3: after every rebalance the long leg's weights are all positive and sum to
\* exactly 1, and the short leg's weights are all negative and sum to exactly -1.
C3_LegWeights ==
    \A k \in 1..Len(rebalances) :
        LET r == rebalances[k]
            legSum(leg) == SumSeq([j \in 1..Len(symbols) |->
                              IF symbols[j] \in leg THEN r.weights[symbols[j]] ELSE 0])
        IN /\ \A s \in r.long : r.weights[s] > 0
           /\ legSum(r.long) = Dec(1)
           /\ \A s \in r.short : r.weights[s] < 0
           /\ legSum(r.short) = -Dec(1)

\* C4 (as stated): in the 40-day scenario a finished run has made exactly 7
\* rebalances.
C4_SevenBoundaries ==
    pc \in {"returned", "notify", "end"} => Len(rebalances) = 7

\* C4 (amended): in the 40-day scenario the rebalances are those of loop indices
\* 10, 15, ..., 35 (every 5th simulated day), exactly 6 by the end of the run, and
\* each ranks every symbol by its return over the 5 calendar steps before the day.
C4_SixBoundaries ==
    /\ \A k \in 1..Len(rebalances) :
        LET r == rebalances[k]
            then == commonDates[r.index + 1 - cfg.LookbackDays]
            trailing(s) == IF closeMap[s][then] = 0 THEN 0
                           ELSE RoundHalfEven(closeMap[s][r.date] * Scale, closeMap[s][then])
                                    - Scale
        IN /\ r.index = cfg.LookbackDays + k * cfg.RebalanceFrequencyDays
           /\ r.date = commonDates[r.index + 1]
           /\ ~r.custom
           /\ Len(r.ranked) = Len(symbols)
           /\ {r.ranked[j].symbol : j \in 1..Len(r.ranked)} = Range(symbols)
           /\ \A j \in 1..Len(r.ranked) : r.ranked[j].score = trailing(r.ranked[j].symbol)
           /\ \A j \in 1..(Len(r.ranked) - 1) : r.ranked[j].score >= r.ranked[j + 1].score
    /\ pc = "loop" => Len(rebalances) = (i - 1 - cfg.LookbackDays) \div cfg.RebalanceFrequencyDays
    /\ pc \in {"returned", "notify", "end"} => Len(rebalances) = 6

\* The scenario's run, finished, with its six rebalances and 34 simulated days.
C4_Witness ==
    /\ pc = "end"
    /\ result.present
    /\ Len(rebalances) = 6
    /\ Len(events) = 34
    /\ \E k \in 1..Len(rebalances) :
        rebalances[k].ranked[1].score > rebalances[k].ranked[Len(symbols)].score

\* C5 (as stated): with enough symbols and a feed that answers, the date check
\* passes whenever the calendar has at least lookbackDays + 2 dates, and otherwise
\* the run fails with the coverage error before any simulated day or event.
C5_TwoPastLookback ==
    (/\ pc \notin {"request", "rejected", "setup"}
     /\ Len(symbols) >= Max(3, cfg.LongCount + cfg.ShortCount)
     /\ ~world.feedFails)
    => IF Len(commonDates) >= cfg.LookbackDays + 2
       THEN ~(thrown.present /\ thrown.message =
                <<"Insufficient overlapping date coverage across symbols.">>)
       ELSE /\ thrown.present
            /\ thrown.message = <<"Insufficient overlapping date coverage across symbols.">>
            /\ navSeries = <<>> /\ events = <<>> /\ hubSent = <<>>

\* C5 (amended): with enough symbols and a feed that answers, the date check
\* passes exactly when the calendar has at least lookbackDays + 3 dates; with
\* fewer the run fails with the coverage error before any simulated day or event.
C5_ThreePastLookback ==
    (/\ pc \notin {"request", "rejected", "setup"}
     /\ Len(symbols) >= Max(3, cfg.LongCount + cfg.ShortCount)
     /\ ~world.feedFails)
    => IF Len(commonDates) >= cfg.LookbackDays + 3
       THEN /\ ~(thrown.present /\ thrown.message =
                    <<"Insufficient overlapping date coverage across symbols.">>)
            /\ DOMAIN closeMap = Range(symbols)
            /\ pc \notin {"py_validate", "py_prepare", "py_wait"} =>
                    \/ pythonExecution # NoSummary
                    \/ thrown.present /\ thrown.type = "IOException"
       ELSE /\ thrown.present
            /\ thrown.message = <<"Insufficient overlapping date coverage across symbols.">>
            /\ pc \in {"thrown", "end"}
            /\ closeMap = <<>> /\ pythonExecution = NoSummary
            /\ navSeries = <<>> /\ events = <<>> /\ hubSent = <<>>

\* A calendar of exactly lookbackDays + 2 dates, refused; the run has ended in
\* error without a single event.
C5_Witness ==
    /\ pc = "end"
    /\ Len(symbols) >= Max(3, cfg.LongCount + cfg.ShortCount)
    /\ ~world.feedFails
    /\ Len(commonDates) = cfg.LookbackDays + 2
    /\ runs[RunId].Status = "error"
    /\ events = <<>>

C7_OneEventPerDay ==
    /\ \A k \in 1..Len(events) :
          /\ cfg.LookbackDays + 1 + k <= Len(commonDates)
          /\ events[k].CurrentDate = <<"yyyy-MM-dd", commonDates[cfg.LookbackDays + 1 + k]>>
    /\ \A j, k \in 1..Len(events) :
          j < k => events[j].CurrentDate[2] < events[k].CurrentDate[2]
    /\ pc = "loop" => Len(events) = i - (cfg.LookbackDays + 1)
    /\ result.present => Len(events) = Len(commonDates) - (cfg.LookbackDays + 1)
    /\ Cardinality({k \in 1..Len(hubSent) : hubSent[k].type = "runProgress"}) = Len(events)

\* A returned run with at least three events.
C7_Witness ==
    /\ result.present
    /\ Len(events) >= 3
    /\ Len(events) = Len(commonDates) - (cfg.LookbackDays + 1)

\* C8: a scoring that was requested and did not succeed, with fallback off, ends
\* the run in error: no event, no hub message, no result, no completed signal, and
\* an error that carries the sandbox's error kind, its message and its diagnostic
\* excerpt when there is one.
C8_FailureWithoutFallback ==
    (/\ pythonExecution.Requested /\ ~pythonExecution.Succeeded
     /\ ~cfg.FallbackToBuiltinOnPythonError
     /\ pc \notin {"py_validate", "py_prepare", "py_wait", "scored"})
    => /\ pc \in {"thrown", "end"}
       /\ events = <<>> /\ navSeries = <<>>
       /\ hubSent = <<>>
       /\ ~result.present
       /\ thrown.present
       /\ thrown.errorType = pythonExecution.ErrorType
       /\ thrown.errorType \in {"validation", "timeout", "runtime", "output", "exception"}
       /\ thrown.message = <<"Python strategy failed">> \o pythonExecution.Message
       /\ Len(pythonExecution.Message) = 1
       /\ thrown.detail = IF pythonExecution.StderrSnippet.isNull
                             \/ pythonExecution.StderrSnippet.length = 0
                          THEN [isNull |-> TRUE, length |-> 0]
                          ELSE pythonExecution.StderrSnippet
       /\ pc = "end" => /\ runs[RunId].Status = "error"
                        /\ runs[RunId].ErrorMessage = thrown
                        /\ ~runs[RunId].Result.present

\* A run ended in error by a scoring that exited non-zero, its stderr excerpt in
\* the error.
C8_Witness ==
    /\ pc = "end"
    /\ pythonExecution.Requested /\ ~pythonExecution.Succeeded
    /\ ~cfg.FallbackToBuiltinOnPythonError
    /\ pythonExecution.ErrorType = "runtime"
    /\ ~thrown.detail.isNull
    /\ runs[RunId].Status = "error"

\* C9: a scoring that was requested and did not succeed, with fallback on, does
\* not fail the run: the engine goes on without signals, every rebalance ranks by
\* the built-in trailing return, and the result it returns reports usedFallback
\* with the sandbox's message followed by the fallback notice.
C9_FailureWithFallback ==
    (/\ pythonExecution.Requested /\ ~pythonExecution.Succeeded
     /\ cfg.FallbackToBuiltinOnPythonError
     /\ pc \notin {"py_validate", "py_prepare", "py_wait", "scored"})
    => /\ pythonExecution.UsedFallback
       /\ Len(pythonExecution.Message) = 2
       /\ pythonExecution.Message[2] = "Falling back to built-in momentum ranking."
       /\ pythonSignals.isNull
       /\ ~(thrown.present /\ thrown.message[1] = "Python strategy failed")
       /\ \A k \in 1..Len(rebalances) :
            LET r == rebalances[k]
                then == commonDates[r.index + 1 - cfg.LookbackDays]
                trailing(s) == IF closeMap[s][then] = 0 THEN 0
                               ELSE RoundHalfEven(closeMap[s][r.date] * Scale,
                                                  closeMap[s][then]) - Scale
            IN /\ ~r.custom
               /\ \A j \in 1..Len(r.ranked) : r.ranked[j].score = trailing(r.ranked[j].symbol)
               /\ \A j \in 1..(Len(r.ranked) - 1) : r.ranked[j].score >= r.ranked[j + 1].score
       /\ pc \in {"returned", "notify", "end"} \/ (pc = "thrown" /\ thrown.type = "HubException")
            => /\ result.present
               /\ result.PythonExecution.UsedFallback
               /\ ~result.PythonExecution.Succeeded
       /\ (pc = "end" /\ ~thrown.present) => runs[RunId].Status = "completed"

\* A completed run whose scoring failed, with fallback on and rebalances made.
C9_Witness ==
    /\ pc = "end"
    /\ pythonExecution.Requested /\ ~pythonExecution.Succeeded
    /\ cfg.FallbackToBuiltinOnPythonError
    /\ runs[RunId].Status = "completed"
    /\ runs[RunId].Result.PythonExecution.UsedFallback
    /\ Len(rebalances) >= 2

C11_DepthNineRejected ==
    (/\ pythonExecution.Requested
     /\ cfg.StrategyCode.length <= 200000
     /\ ~cfg.StrategyParams.isNull
     /\ cfg.StrategyParams.count <= 200
     /\ cfg.StrategyParams.keyLength <= 120)
    => /\ cfg.StrategyParams.value = Nested(9)
            => /\ pythonExecution.ErrorType = "validation"
               /\ pythonExecution.Message[1] = "Param exceeds supported JSON complexity."
               /\ ~pythonExecution.Executed /\ ~pythonExecution.Succeeded
               /\ pythonExecution.StderrSnippet.isNull
               /\ pythonSignals.isNull
               /\ tempDir = "none" /\ process = "none"
       /\ cfg.StrategyParams.value \in {Nested(8), NestedEmpty(9)}
            => /\ pythonExecution.ErrorType # "validation"
               /\ tempDir # "none"

\* The scoring has answered a request whose parameter is nested to depth 9.
C11_Witness ==
    /\ pc = "scored"
    /\ cfg.StrategyParams.value = Nested(9)
    /\ pythonExecution.Requested
    /\ pythonExecution.ErrorType = "validation"
    /\ tempDir = "none" /\ process = "none"

\* C12: when the scoring code returns a single symbol -> score mapping and the
\* scoring succeeds, the signals hold one entry, that of the calendar's last date;
\* a rebalance on an earlier date ranks by the trailing return, and a rebalance on
\* the last date, and only that one, ranks by the mapping's scores.
C12_SingleMappingOnLastDate ==
    (/\ world.signalKind = "latest"
     /\ pythonExecution.Requested /\ pythonExecution.Succeeded)
    => /\ ~pythonSignals.isNull
       /\ DOMAIN pythonSignals.byDate = {<<"yyyy-MM-dd", commonDates[Len(commonDates)]>>}
       /\ pythonExecution.SignalDates = 1
       /\ \A k \in 1..Len(rebalances) :
            LET r == rebalances[k]
                then == commonDates[r.index + 1 - cfg.LookbackDays]
                trailing(s) == IF closeMap[s][then] = 0 THEN 0
                               ELSE RoundHalfEven(closeMap[s][r.date] * Scale,
                                                  closeMap[s][then]) - Scale
                external(s) == Dec(CASE s = "A" -> 1 [] s = "B" -> 2 [] OTHER -> 3)
            IN /\ r.custom <=> r.date = commonDates[Len(commonDates)]
               /\ \A j \in 1..Len(r.ranked) :
                    r.ranked[j].score = IF r.date = commonDates[Len(commonDates)]
                                        THEN external(r.ranked[j].symbol)
                                        ELSE trailing(r.ranked[j].symbol)
               /\ \A j \in 1..(Len(r.ranked) - 1) : r.ranked[j].score >= r.ranked[j + 1].score

\* A returned run that rebalanced on earlier dates by the built-in ranking and on
\* the last date by the single mapping.
C12_Witness ==
    /\ result.present
    /\ world.signalKind = "latest"
    /\ pythonExecution.Succeeded /\ pythonExecution.Requested
    /\ Len(rebalances) >= 2
    /\ ~rebalances[1].custom
    /\ rebalances[Len(rebalances)].custom
    /\ rebalances[Len(rebalances)].date = commonDates[Len(commonDates)]
    /\ rebalances[Len(rebalances)].ranked[1].symbol = "C"

\* C13: the accumulated turnover never decreases; a simulated day adds to it the
\* sum of the absolute changes of the weights made that day, which is zero on a day
\* that is not a rebalance day, and no other step of the run changes it.
C13_TurnoverMonotone ==
    [][/\ totalTurnover' >= totalTurnover
       /\ IF pc = "loop" /\ i' # i
          THEN LET changes == {s \in Range(symbols) : positions'[s] # positions[s]}
                   moved(s) == IF positions'[s] >= positions[s]
                               THEN positions'[s] - positions[s]
                               ELSE positions[s] - positions'[s]
               IN /\ totalTurnover' - totalTurnover =
                        SumSeq([k \in 1..Len(symbols) |-> moved(symbols[k])])
                  /\ (i - cfg.LookbackDays) % (IF cfg.RebalanceFrequencyDays > 1
                                               THEN cfg.RebalanceFrequencyDays ELSE 1) # 0
                        => changes = {} /\ totalTurnover' = totalTurnover
          ELSE pc # "loop" => totalTurnover' = totalTurnover]_vars

\* Three days into a run that rebalances every second day, turnover accumulated by
\* two rebalances that moved weights.
C13_Witness ==
    /\ pc = "loop"
    /\ cfg.RebalanceFrequencyDays = 2
    /\ Len(events) >= 4
    /\ Len(rebalances) >= 2
    /\ totalTurnover > Dec(2)

C16_CancelStopsTheLoop ==
    [][/\ (token.requested /\ pc = "loop" /\ i < Len(commonDates)) =>
            /\ pc' = "thrown"
            /\ thrown'.type = "OperationCanceledException"
            /\ events' = events /\ hubSent' = hubSent
            /\ rebalances' = rebalances /\ positions' = positions /\ txs' = txs
            /\ ~result'.present
       /\ (pc = "thrown" /\ thrown.type = "OperationCanceledException") =>
            /\ pc' = "thrown"
            /\ events' = events /\ hubSent' = hubSent
            /\ rebalances' = rebalances /\ positions' = positions
            /\ ~result'.present]_vars

\* A run cancelled in the middle of the loop: events were emitted, a rebalance was
\* done, dates remain.
C16_Witness ==
    /\ pc = "thrown" /\ thrown.type = "OperationCanceledException"
    /\ Len(events) >= 2 /\ Len(rebalances) >= 1
    /\ i < Len(commonDates)
    /\ ~result.present

\* C17: a run follows NotStarted -> Running -> {Completed, Failed, Cancelled} with
\* no re-entry: a record enters the registry running, its status changes only
\* from running to one of the three ends, and a run ended by a cancellation is
\* not recorded as an error.
C17_Lifecycle ==
    [][/\ Len(runs') >= Len(runs)
       /\ \A r \in 1..Len(runs') :
            IF r > Len(runs)
            THEN runs'[r].Status = "running"
            ELSE /\ runs'[r].Status # runs[r].Status =>
                        /\ runs[r].Status = "running"
                        /\ runs'[r].Status \in {"completed", "error", "cancelled"}
                 /\ (runs'[r].Status = "error" /\ runs[r].Status # "error") =>
                        thrown.type # "OperationCanceledException"]_vars

\* C18: a terminal outcome never changes: a record that is completed with a result
\* never becomes error, and a record that is error never becomes completed.
C18_TerminalIsFinal ==
    [][\A r \in 1..Len(runs) :
            /\ (runs[r].Status = "completed" /\ runs[r].Result.present) =>
                    runs'[r].Status = "completed"
            /\ runs[r].Status = "error" => runs'[r].Status = "error"]_vars

\* C19: a failed run exposes no result, partial or full: a record with status
\* error holds no Result and yields no transactions, and GET /api/runs/{runId}
\* returns a result only for a completed run that has one, 202 with the status and
\* the error message for any other known run, 404 for an unknown id.
C19_FailedRunExposesNothing ==
    /\ \A r \in 1..Len(runs) :
        runs[r].Status = "error" =>
            /\ ~runs[r].Result.present
            /\ GetTransactions(r) = <<>>
    /\ \A id \in 0..(Len(runs) + 1) :
        LET response == GetRun(id)
        IN /\ response.result.present =>
                /\ id \in 1..Len(runs)
                /\ runs[id].Status = "completed"
                /\ response.code = 200
           /\ id \notin 1..Len(runs) => response.code = 404
           /\ (id \in 1..Len(runs) /\ ~response.result.present) =>
                /\ response.code = 202
                /\ response.status = runs[id].Status
                /\ response.errorMessage = runs[id].ErrorMessage

\* C20: the scoring sandbox never lets an internal failure escape: no step of
\* BuildSignalsByDateAsync throws, and a failure creating the temporary directory,
\* writing the input files, starting the process or reading its output gives an
\* outcome of error kind exception.
C20_SandboxNeverThrows ==
    [][(pc = "py_validate" \/ pc = "py_prepare" \/ pc = "py_wait") =>
        /\ pc' # "thrown"
        /\ thrown' = NoException
        /\ IF \/ /\ pc = "py_validate"
                 /\ world.proc.fails = "mkdir"
                 /\ cfg.StrategyCode.text = "code"
                 /\ cfg.StrategyCode.length <= MaxCodeLength
                 /\ ValidateParams(cfg.StrategyParams) = "null"
              \/ /\ pc = "py_prepare"
                 /\ world.proc.fails \in {"write", "start"}
           THEN /\ pc' = "scored"
                /\ pythonExecution'.Requested
                /\ ~(pythonExecution'.Executed)
                /\ pythonExecution'.ErrorType = "exception"
           ELSE TRUE]_vars

\* C21: when the subprocess exits with status 0 within the time limit but its
\* output holds no JSON object line, or one that is not a date -> symbol -> score
\* mapping, the sandbox returns executed = true, succeeded = false, error kind
\* output and no signals.
C21_UnparsedOutputIsOutput ==
    (/\ pc = "scored"
     /\ process = "exited"
     /\ world.proc.exitCode = 0
     /\ world.proc.exitAt < PythonTimeoutSeconds
     /\ world.proc.stdout \in {"blank", "text", "notmapping"})
    => /\ pythonExecution.Executed
       /\ ~pythonExecution.Succeeded
       /\ pythonExecution.ErrorType = "output"
       /\ pythonSignals.isNull

\* C22: every outcome the sandbox returns is consistent: an unsuccessful one has
\* one error kind of validation, timeout, runtime, output, exception, no signals
\* and a signal-date count of 0; a successful one has no error kind; an excerpt is
\* never longer than 3000 characters; and a process that exits non-zero within the
\* time limit, the wait not being cancelled, is classified runtime with
\* executed = true.
C22_OutcomeConsistent ==
    pc = "scored" =>
        /\ ~pythonExecution.Succeeded =>
                /\ pythonExecution.ErrorType \in
                        {"validation", "timeout", "runtime", "output", "exception"}
                /\ pythonSignals.isNull
                /\ pythonExecution.SignalDates = 0
        /\ pythonExecution.Succeeded => pythonExecution.ErrorType = "null"
        /\ ~pythonExecution.StderrSnippet.isNull =>
                pythonExecution.StderrSnippet.length <= MaxStderrLength
        /\ (/\ process = "exited"
            /\ ~token.requested
            /\ world.proc.exitCode # 0
            /\ world.proc.exitAt < PythonTimeoutSeconds) =>
                /\ pythonExecution.ErrorType = "runtime"
                /\ pythonExecution.Executed
                /\ ~pythonExecution.Succeeded
                /\ ~pythonExecution.StderrSnippet.isNull

\* A non-zero exit whose error output was longer than the bound and was cut to it.
C22_Witness ==
    /\ pc = "scored"
    /\ process = "exited"
    /\ world.proc.exitCode # 0
    /\ world.proc.stderrLength > MaxStderrLength
    /\ pythonExecution.ErrorType = "runtime"
    /\ pythonExecution.StderrSnippet.length = MaxStderrLength

\* C23: once BuildSignalsByDateAsync has returned, on every path on which the
\* temporary directory was created, the directory no longer exists.
C23_TempDirGone ==
    (pc \notin {"py_validate", "py_prepare", "py_wait"} /\ tempDir # "none")
        => tempDir = "deleted"

\* C24: at a rebalance that ranks by the strategy's entry for the date, a symbol
\* the entry omits is never in the long leg while a symbol the entry scores is
\* left out of it, whatever the scores are.
C24_MissingNeverAheadOfScored ==
    \A k \in 1..Len(rebalances) :
        LET rb == rebalances[k]
        IN rb.custom =>
            LET entry == pythonSignals.byDate[DateKey(rb.date)]
            IN (\E m \in rb.long : m \notin DOMAIN entry) =>
                    \A s \in Range(symbols) \cap DOMAIN entry : s \in rb.long

\* C25: runs executing side by side do not interfere: with a feed that answers, a
\* run's fetches succeed as they do when the run executes alone, its record is not
\* turned to error by what another run does, whether or not the runs ask for the
\* same symbol, and every run asks for SPY.
C25_RunsDoNotInterfere ==
    \A t \in DOMAIN fetch :
        /\ fetch[t].pc # "thrown"
        /\ runs[t].Status # "error"

\* C26: every started run eventually reaches a terminal status; in particular the
\* wait on the scoring subprocess is bounded by the hard timeout: whenever the
\* run waits on the subprocess, the wait can end, by the exit or by the timeout,
\* and a run that waits is not yet terminal.
C26_SubprocessWaitBounded ==
    pc = "py_wait" =>
        /\ runs[RunId].Status = "running"
        /\ ENABLED PyWait

\* C27: for every configuration that passes the symbol-count check, the long leg
\* and the short leg selected at a rebalance have no symbol in common, also when
\* longCount or shortCount is 0 or negative and is raised to 1.
C27_LegsDisjoint ==
    \A k \in 1..Len(rebalances) : rebalances[k].long \cap rebalances[k].short = {}

\* C28: the return and the NAV of every simulated day, a rebalance day included,
\* are computed with the weights in force before that day's rebalance: those of
\* the latest rebalance of an earlier day, or zero before the first; what a
\* rebalance selects first counts on the next simulated day.
C28_ReturnUsesEarlierWeights ==
    \A k \in 1..Len(dailyReturns) :
        LET idx     == cfg.LookbackDays + k
            date    == commonDates[idx + 1]
            prev    == commonDates[idx]
            earlier == {r \in 1..Len(rebalances) : rebalances[r].index < idx}
            latest  == CHOOSE r \in earlier : \A q \in earlier : q <= r
            weights == IF earlier = {} THEN [s \in Range(symbols) |-> 0]
                       ELSE rebalances[latest].weights
            earned  == SumSeq([j \in 1..Len(symbols) |->
                            IF closeMap[symbols[j]][prev] = 0 THEN 0
                            ELSE RoundHalfEven(weights[symbols[j]] *
                                    (DecDiv(closeMap[symbols[j]][date],
                                            closeMap[symbols[j]][prev]) - Scale), Scale)])
        IN /\ dailyReturns[k].DailyReturn = earned
           /\ navSeries[k + 1] = RoundHalfEven(navSeries[k] * (Scale + earned), Scale)

\* Two rebalances with different weights, and a day after the second whose return
\* is not zero.
C28_Witness ==
    /\ Len(rebalances) >= 2
    /\ rebalances[1].weights # rebalances[2].weights
    /\ Len(dailyReturns) > rebalances[2].index - cfg.LookbackDays
    /\ dailyReturns[Len(dailyReturns)].DailyReturn # 0

\* C29: the scores used at a rebalance on date d come from an input that holds no
\* price of a date later than d: the built-in ranking reads the closes of the
\* lookback date and of d, and the input the strategy code was given ends at d.
C29_NoLaterPrices ==
    \A k \in 1..Len(rebalances) :
        LET rb == rebalances[k]
            lookbackDate == commonDates[rb.index - cfg.LookbackDays + 1]
        IN IF rb.custom
           THEN \A s \in Range(symbols) :
                    \A d \in DOMAIN BuildInputPayload(commonDates, closeMap, symbols).close[s] :
                        d <= rb.date
           ELSE /\ lookbackDate <= rb.date
                /\ rb.ranked = DefaultRanked(symbols, closeMap, lookbackDate, rb.date)

\* C30: the weights change only in a rebalance: a simulated day that is not a
\* rebalance boundary leaves the weights as they were, records no transaction and
\* no rebalance and leaves the total turnover unchanged; outside the loop only its
\* initialisation sets the weights.
C30_WeightsOnlyAtRebalance ==
    [][/\ (pc = "loop" /\ i < Len(commonDates) /\
            (i - cfg.LookbackDays) % Max(1, cfg.RebalanceFrequencyDays) # 0) =>
                /\ positions' = positions
                /\ txs' = txs
                /\ rebalances' = rebalances
                /\ totalTurnover' = totalTurnover
       /\ (pc # "loop" /\ pc # "scored") => positions' = positions]_vars

\* A day that is not a boundary has passed after a rebalance that traded: the
\* weights are still those of the rebalance.
C30_Witness ==
    /\ pc = "loop"
    /\ cfg.RebalanceFrequencyDays = 2
    /\ Len(rebalances) = 1
    /\ i = rebalances[1].index + 2
    /\ txs # <<>>
    /\ positions = rebalances[1].weights
    /\ \E s \in Range(symbols) : positions[s] # 0

\* C31: a step of the day loop appends to the transactions exactly one entry for
\* each symbol whose weight it changes and none for a symbol whose weight it
\* leaves, all dated on the day of the step; so every transaction is dated on a
\* rebalance boundary and no symbol has two transactions of one date.
C31_OneTransactionPerChange ==
    [][(pc = "loop" /\ (pc' = "loop" \/ pc' = "thrown")) =>
          /\ Len(txs') >= Len(txs)
          /\ SubSeq(txs', 1, Len(txs)) = txs
          /\ \A s \in Range(symbols) :
                Cardinality({k \in Len(txs) + 1..Len(txs') : txs'[k].Symbol = s})
                    = IF positions'[s] # positions[s] THEN 1 ELSE 0
          /\ \A k \in Len(txs) + 1..Len(txs') :
                /\ txs'[k].Symbol \in Range(symbols)
                /\ txs'[k].Date = DateKey(commonDates[i + 1])
                /\ (i - cfg.LookbackDays) % Max(1, cfg.RebalanceFrequencyDays) = 0
          /\ \A k, j \in 1..Len(txs') :
                (txs'[k].Date = txs'[j].Date /\ txs'[k].Symbol = txs'[j].Symbol) => k = j]_vars

\* A second rebalance has traded some symbols and left another at the non-zero
\* weight it had: the batch of that date has an entry for the former only.
C31_Witness ==
    /\ Len(rebalances) >= 2
    /\ \E s \in Range(symbols) :
          /\ rebalances[1].weights[s] # 0
          /\ rebalances[2].weights[s] = rebalances[1].weights[s]
          /\ \A k \in 1..Len(txs) :
                ~(txs[k].Symbol = s /\ txs[k].Date = DateKey(rebalances[2].date))
    /\ \E k \in 1..Len(txs) : txs[k].Date = DateKey(rebalances[2].date)
    /\ \E k \in 1..Len(txs) : txs[k].Date = DateKey(rebalances[1].date)

\* C32: every transaction a step of the day loop records carries the side its
\* symbol's weight change calls for: BUY when the weight rises to a weight that is
\* not negative, COVER when it rises to a negative weight, SHORT when it falls to
\* a negative weight, SELL when it falls to a weight that is not negative; and no
\* transaction of the run has a side outside these four.
C32_SideFromDeltaAndResult ==
    [][(pc = "loop" /\ (pc' = "loop" \/ pc' = "thrown")) =>
          /\ \A k \in Len(txs) + 1..Len(txs') :
                LET before == positions[txs'[k].Symbol]
                    after  == positions'[txs'[k].Symbol]
                IN /\ after # before
                   /\ (after > before /\ after >= 0) => txs'[k].Side = "BUY"
                   /\ (after > before /\ after < 0) => txs'[k].Side = "COVER"
                   /\ (after < before /\ after < 0) => txs'[k].Side = "SHORT"
                   /\ (after < before /\ after >= 0) => txs'[k].Side = "SELL"
          /\ \A k \in 1..Len(txs') : txs'[k].Side \in {"BUY", "COVER", "SHORT", "SELL"}]_vars

\* The run has bought, shorted and sold, and has bought a symbol out of the short
\* leg into the long one.
C32_Witness ==
    /\ \A side \in {"BUY", "SHORT", "SELL"} : \E k \in 1..Len(txs) : txs[k].Side = side
    /\ Len(rebalances) >= 2
    /\ \E s \in Range(symbols) :
          /\ rebalances[1].weights[s] < 0
          /\ rebalances[2].weights[s] > 0
          /\ \E k \in 1..Len(txs) :
                /\ txs[k].Symbol = s
                /\ txs[k].Date = DateKey(rebalances[2].date)
                /\ txs[k].Side = "BUY"

\* C33: the ranking of every rebalance lists each symbol once, scores never
\* rising, and symbols with equal scores in the order of the symbol list; so of two
\* tied symbols the later-listed one is in the long leg only if the earlier-listed
\* one is, and the earlier-listed one is in the short leg only if the later-listed
\* one is.
C33_StableDescendingRanking ==
    \A r \in 1..Len(rebalances) :
        LET ranked == rebalances[r].ranked
            place(s) == CHOOSE k \in 1..Len(symbols) : symbols[k] = s
        IN /\ Len(ranked) = Len(symbols)
           /\ {ranked[k].symbol : k \in 1..Len(ranked)} = Range(symbols)
           /\ \A k, j \in 1..Len(ranked) :
                k < j =>
                    /\ ranked[k].score >= ranked[j].score
                    /\ ranked[k].score = ranked[j].score =>
                          /\ place(ranked[k].symbol) < place(ranked[j].symbol)
                          /\ ranked[j].symbol \in rebalances[r].long
                                => ranked[k].symbol \in rebalances[r].long
                          /\ ranked[k].symbol \in rebalances[r].short
                                => ranked[j].symbol \in rebalances[r].short

\* A rebalance where a tie decides both legs: of two symbols with one score the
\* earlier-listed is long and the other is not, and of two symbols with one score
\* the later-listed is short and the other is not.
C33_Witness ==
    \E r \in 1..Len(rebalances) :
        LET ranked == rebalances[r].ranked
        IN /\ \E k, j \in 1..Len(ranked) :
                /\ k < j /\ ranked[k].score = ranked[j].score
                /\ ranked[k].symbol \in rebalances[r].long
                /\ ranked[j].symbol \notin rebalances[r].long
           /\ \E k, j \in 1..Len(ranked) :
                /\ k < j /\ ranked[k].score = ranked[j].score
                /\ ranked[j].symbol \in rebalances[r].short
                /\ ranked[k].symbol \notin rebalances[r].short

\* C34: the benchmark NAV of every simulated day is the initial capital grown by
\* the benchmark's returns of the simulated days alone: the capital times the
\* benchmark's close of that day over its close of the day the simulation starts
\* from, where the strategy NAV stands at the initial capital (the product of the
\* daily returns since then, telescoped).
C34_BenchmarkFromSimulationStart ==
    \A k \in 1..Len(equityCurve) :
        LET benchmarkMap == ToCloseMap(benchmarkBars)
            date  == commonDates[cfg.LookbackDays + k + 1]
            start == commonDates[cfg.LookbackDays + 1]
        IN (/\ date \in DOMAIN benchmarkMap
            /\ start \in DOMAIN benchmarkMap
            /\ benchmarkMap[start] # 0)
           => equityCurve[k].BenchmarkNav =
                DecMul(cfg.InitialCapital, DecDiv(benchmarkMap[date], benchmarkMap[start]))

\* C35: the top holdings of a returned result are exactly the symbols whose final
\* weight is not zero, each once and with that weight, largest absolute weight
\* first; they are at most LongCount + ShortCount many, and none when the run made
\* no rebalance.
C35_TopHoldingsAreTheLegs ==
    result.present =>
        LET top == result.TopHoldings
        IN /\ {top[k].Symbol : k \in 1..Len(top)} = {s \in Range(symbols) : positions[s] # 0}
           /\ \A k, j \in 1..Len(top) : top[k].Symbol = top[j].Symbol => k = j
           /\ \A k \in 1..Len(top) : top[k].Weight = positions[top[k].Symbol]
           /\ \A k, j \in 1..Len(top) : k < j => Abs(top[k].Weight) >= Abs(top[j].Weight)
           /\ Len(top) <= cfg.LongCount + cfg.ShortCount
           /\ rebalances = <<>> => top = <<>>

\* C36: until the loop has made its first rebalance every weight is zero; every
\* simulated day up to and including the first rebalance boundary (the cadence-th
\* simulated day) has return 0, a NAV equal to the initial capital and drawdown 0;
\* and no transaction is dated before that boundary.
C36_FlatUntilFirstRebalance ==
    LET first == Max(1, cfg.RebalanceFrequencyDays)
    IN /\ (pc = "loop" /\ rebalances = <<>>) => \A s \in Range(symbols) : positions[s] = 0
       /\ \A k \in 1..Len(dailyReturns) :
             k <= first =>
                /\ dailyReturns[k].DailyReturn = 0
                /\ equityCurve[k].Nav = cfg.InitialCapital
                /\ navSeries[k + 1] = cfg.InitialCapital
                /\ drawdownSeries[k].Drawdown = 0
       /\ \A k \in 1..Len(txs) :
             \A j \in 1..Len(commonDates) :
                txs[k].Date = DateKey(commonDates[j]) => j >= cfg.LookbackDays + first + 1

\* A run that rebalances every second day has traded at its first boundary, whose
\* day earned nothing although prices moved, and has earned a return after it.
C36_Witness ==
    /\ cfg.RebalanceFrequencyDays = 2
    /\ Len(rebalances) >= 1
    /\ txs # <<>>
    /\ Len(dailyReturns) >= 3
    /\ dailyReturns[2].DailyReturn = 0
    /\ dailyReturns[3].DailyReturn # 0
    /\ \E s \in Range(symbols) :
          closeMap[s][commonDates[cfg.LookbackDays + 2]]
              # closeMap[s][commonDates[cfg.LookbackDays + 1]]

\* C37: no transaction of any run has the side COVER: the short weight is the same
\* at every rebalance of a run, so no weight rises and stays negative.
C37_NeverCover ==
    /\ \A k \in 1..Len(txs) : txs[k].Side # "COVER"
    /\ \A r, q \in 1..Len(rebalances) :
          \A s \in rebalances[r].short, t \in rebalances[q].short :
              rebalances[r].weights[s] = rebalances[q].weights[t]

\* A symbol was short, stayed short over one rebalance without a transaction, and
\* left the short leg for a zero weight at a later one, recorded as BUY.
C37_Witness ==
    /\ Len(rebalances) >= 2
    /\ \E s \in Range(symbols), r \in 1..Len(rebalances) - 1 :
          /\ rebalances[r].weights[s] < 0
          /\ rebalances[r + 1].weights[s] = 0
          /\ \E k \in 1..Len(txs) :
                /\ txs[k].Symbol = s
                /\ txs[k].Date = DateKey(rebalances[r + 1].date)
                /\ txs[k].Side = "BUY"
    /\ \E s \in Range(symbols), r \in 1..Len(rebalances) - 1 :
          /\ rebalances[r].weights[s] < 0
          /\ rebalances[r + 1].weights[s] < 0

\* C38: the max drawdown of every emitted snapshot is the least of 0 and the
\* drawdown points the loop has emitted up to that day, and the max drawdown of
\* the final metrics is the least of 0 and all the drawdown points of the result.
C38_MaxDrawdownAgrees ==
    LET least(n) == CHOOSE m \in {0} \cup {drawdownSeries[j].Drawdown : j \in 1..n} :
                        \A j \in 1..n : m <= drawdownSeries[j].Drawdown /\ m <= 0
    IN /\ Len(events) <= Len(drawdownSeries)
       /\ \A k \in 1..Len(events) :
             /\ events[k].DrawdownPoint = drawdownSeries[k]
             /\ events[k].MetricsSnapshot.MaxDrawdown = least(k)
       /\ result.present =>
             /\ result.DrawdownSeries = drawdownSeries
             /\ result.Metrics.MaxDrawdown = least(Len(drawdownSeries))

\* A returned run whose NAV fell from a peak and then recovered part of the loss:
\* the final max drawdown is deeper than the last drawdown point.
C38_Witness ==
    /\ result.present
    /\ Len(events) >= 3
    /\ result.Metrics.MaxDrawdown < 0
    /\ drawdownSeries[Len(drawdownSeries)].Drawdown > result.Metrics.MaxDrawdown
    /\ \E k \in 1..Len(events) - 1 :
          events[k].MetricsSnapshot.MaxDrawdown > events[k + 1].MetricsSnapshot.MaxDrawdown

\* C39: once the runCompleted message of a run has been handed to the hub, GET
\* /api/runs/{runId} answers 200 with the result RunAsync returned for that run,
\* never 202: the record was marked completed before the message was sent and
\* stays so.
C39_CompletedBeforeNotified ==
    \A k \in 1..Len(hubSent) :
        hubSent[k].type = "runCompleted" =>
            /\ GetRun(hubSent[k].runId).code = 200
            /\ GetRun(hubSent[k].runId).result.present
            /\ GetRun(hubSent[k].runId).result.RunId = hubSent[k].runId
            /\ (hubSent[k].runId = RunId /\ pc = "end")
                  => GetRun(hubSent[k].runId).result = result

\* The run's task has ended after sending runCompleted behind the progress
\* messages of its days, and the record answers with the result.
C39_Witness ==
    /\ pc = "end"
    /\ Len(hubSent) > 1
    /\ hubSent[Len(hubSent)].type = "runCompleted"
    /\ hubSent[1].type = "runProgress"
    /\ GetRun(hubSent[Len(hubSent)].runId).code = 200
    /\ GetRun(hubSent[Len(hubSent)].runId).result.Transactions # <<>>

\* C40: a result in the store is the result of the run whose id the store holds,
\* and the poll of a call whose run is not that run leaves the store's result and
\* status as they are when it ends.
C40_ResultOfCurrentRun ==
    [][/\ store'.result.present => store'.result.RunId = store'.runId
       /\ \A c \in 1..Len(calls) :
             (calls[c].pc = "polling" /\ calls'[c].pc = "done" /\ calls[c].runId # store.runId)
                 => (store'.result = store.result /\ store'.status = store.status)]_vars

====
